---- MODULE Spec2Model ----
(***************************************************************************)
(* Document-intelligence pipeline and multi-provider model manager.        *)
(*                                                                         *)
(*   - DocumentIntelligenceWorkflow (workflows/document_intelligence_      *)
(*     workflow.py): the validate -> classify -> process -> handle_error   *)
(*     graph, one action per graph node, routing included in the node's    *)
(*     action.                                                             *)
(*   - UnifiedModelManager (utils/model_manager.py): providers, active and *)
(*     fallback references, generate with failover, switch_provider.       *)
(*   - DocumentIntelligenceAgent (agents/document_intelligence_agent.py):  *)
(*     switch_model_provider, process_document_with_provider.              *)
(*                                                                         *)
(* Text is modelled as a sequence of string parts: an f-string is the      *)
(* concatenation of its parts, the empty string is <<>>.                   *)
(***************************************************************************)
EXTENDS Integers, Sequences, FiniteSets, TLC

VARIABLES
    \* ---- DocumentProcessingState and the position in the graph ----
    pc,                 \* node about to run, "idle" before a call, "returned" after
    document_path,      \* state["document_path"]
    use_vision,         \* state["use_vision"]
    enable_pii_masking, \* state["enable_pii_masking"]
    processing_status,  \* state["processing_status"]
    document_type,      \* state["document_type"]
    extracted_data,     \* state["extracted_data"]
    error_message,      \* state["error_message"]
    messages,           \* state["messages"]
    stateKeys,          \* keys present in the state dict
    result,             \* the dict process_document returned
    nodeLog,            \* nodes executed in this run, in order, each with whether
                        \* its except branch was taken and what the agent call in
                        \* it returned or raised
    fsExists,           \* os.path.exists(document_path)
    fsReadable,         \* open(document_path, 'rb') succeeds
    MAX_CONTEXT_TOKENS, \* settings.MAX_CONTEXT_TOKENS
    batch,              \* the batch_process_documents call in progress: its
                        \* arguments, loop position and results dict
    \* ---- UnifiedModelManager ----
    providers,          \* self.providers: names in insertion order
    active_provider,    \* self.active_provider (a provider name or None)
    fallback_provider,  \* self.fallback_provider (a provider name or None)
    MODEL_PROVIDER,     \* settings.MODEL_PROVIDER
    FALLBACK_PROVIDER,  \* settings.FALLBACK_PROVIDER
    available,          \* is_available() of each provider object, now
    agent_config,       \* what the agent's extractor and splitter are configured for
    lastCall,           \* record of the last completed manager/agent call
    \* ---- a thread running get_active_provider_name step by step ----
    rpc,                \* "idle", "loop", "done"
    ridx,               \* index of the next providers entry to compare
    rret,               \* value returned
    rseen,              \* names that were active at some moment during the call
    \* ---- a thread running the agent's switch_model_provider step by step ----
    tpc,                \* "idle", "configure_model", "configure_splitter"
    tname,              \* the provider name it was called with
    tobs,               \* what a step of another caller last found
    \* ---- further calls of the agent ----
    piiCall,            \* the last mask_pii call: its text, the setting, whether
                        \* self.analyzer was set, whether masking raised, and
                        \* the text returned
    \* ---- ContentCreationWorkflow.run_with_feedback_loop ----
    fbl,                \* its position, max_iterations, iteration,
                        \* current_content, the self.run calls made so far with
                        \* what each returned, and the dict it returned
    \* ---- two threads running process_document_with_provider ----
    callers             \* per thread: its position, provider_name,
                        \* original_provider, how the call ended, and the
                        \* provider that was active before either call started

wfVars == <<pc, document_path, use_vision, enable_pii_masking, processing_status,
            document_type, extracted_data, error_message, messages, stateKeys,
            result, nodeLog, fsExists, fsReadable, MAX_CONTEXT_TOKENS, batch>>
regVars == <<providers, active_provider, fallback_provider, MODEL_PROVIDER,
             FALLBACK_PROVIDER, available, agent_config, lastCall>>
rdVars == <<rpc, ridx, rret, rseen>>
thVars == <<tpc, tname, tobs>>
agVars == <<piiCall, fbl, callers>>
vars == <<wfVars, regVars, rdVars, thVars, agVars>>

None == "None"

\* the provider classes _initialize_providers constructs, in that order
ProviderNames == <<"ollama", "huggingface">>

ProviderSet == { ProviderNames[i] : i \in 1..Len(ProviderNames) }

\* values of settings.MODEL_PROVIDER and settings.FALLBACK_PROVIDER
SettingsNames == ProviderSet \cup {"openai"}

\* what a provider's generate produced: its text, or the exception it raised;
\* call is the position of the invocation within one manager generate call
Text(name, call) == [kind |-> "text", by |-> name, call |-> call]
Error(name, call) == [kind |-> "error", by |-> name, call |-> call]
NoValue == [kind |-> "none", by |-> None, call |-> 0]
NoProvidersError == [kind |-> "No model providers available", by |-> None, call |-> 0]

\* placeholder for "no step of another caller observed yet"
NoObs == [ seen |-> FALSE, step |-> "none", during |-> "idle", active |-> None,
           llm_for |-> None, splitter_for |-> None ]

\* placeholder for "mask_pii not called yet"
NoPii == [ called |-> FALSE, text |-> "", enabled |-> FALSE, analyzer |-> FALSE,
           raises |-> FALSE, out |-> "" ]

\* the threads that call process_document_with_provider
CallerThreads == {1, 2}

\* no process_document_with_provider call started
NoCallers == [ t \in CallerThreads |->
                 [ pc |-> "idle", provider_name |-> None, original_provider |-> None,
                   outcome |-> "none", before |-> None ] ]

\* placeholder for "no dict returned yet"
NoReturn == [success |-> FALSE, iterations |-> 0, final_content |-> ""]

\* run_with_feedback_loop not called yet
NoLoop == [ pc |-> "idle", max_iterations |-> 0, iteration |-> 0,
            current_content |-> "", runs |-> <<>>, ret |-> NoReturn ]

\* placeholder for "no manager call made yet"
NoCall == [ op |-> "none", arg |-> None, activeBefore |-> None,
            fallbackBefore |-> None, ok1 |-> FALSE, ok2 |-> FALSE,
            calls |-> <<>>, outcome |-> "none", value |-> NoValue ]

\* the agent before _initialize_components configured anything
NoConfig == [llm_for |-> None, splitter_for |-> None]

(***************************************************************************)
(* Bounds of the model.                                                    *)
(***************************************************************************)
MaxRecords == 2

(***************************************************************************)
(* Documents.  A path is its file-name stem and its suffix; the empty path *)
(* is the empty stem with the empty suffix.                                *)
(***************************************************************************)
EmptyPath == [stem |-> "", suffix |-> ""]

Paths ==
    { EmptyPath,
      [stem |-> "invoice", suffix |-> ".txt"],
      [stem |-> "Passport", suffix |-> ".PDF"],
      [stem |-> "notes", suffix |-> ".xyz"],
      [stem |-> "card", suffix |-> ""],
      [stem |-> "invoice_passport", suffix |-> ".pdf"] }

\* str.lower() on the suffixes that occur
Lower(s) ==
    CASE s = ".PDF" -> ".pdf"
      [] s = ".TXT" -> ".txt"
      [] OTHER -> s

\* the substrings classify_document looks for that occur in the lowered file name
Indicators(p) ==
    CASE p.stem = "invoice" -> {"invoice"}
      [] p.stem = "Passport" -> {"passport"}
      [] p.stem = "card" -> {"card"}
      [] p.stem = "invoice_passport" -> {"invoice", "passport"}
      [] OTHER -> {}

get_supported_formats ==
    {".pdf", ".png", ".jpg", ".jpeg", ".tiff", ".bmp", ".docx", ".doc", ".txt"}

validate_document(p) == Lower(p.suffix) \in get_supported_formats

\* what the agent's classify_document returns: None when the file cannot be opened
classify_document(p, readable) ==
    IF ~readable THEN None
    ELSE IF "invoice" \in Indicators(p) \/ "bill" \in Indicators(p) THEN "Invoice"
    ELSE IF "license" \in Indicators(p) \/ "dl" \in Indicators(p) THEN "Driver License"
    ELSE IF "passport" \in Indicators(p) THEN "Passport"
    ELSE IF "business" \in Indicators(p) \/ "card" \in Indicators(p) THEN "Business Card"
    ELSE "Unknown"

\* str(path) and Path(path).name / .suffix as text parts
PathText(p) == IF p = EmptyPath THEN <<>> ELSE <<p.stem, p.suffix>>
SuffixText(p) == IF p.suffix = "" THEN <<>> ELSE <<p.suffix>>

\* str(e) of the faults the collaborators raise; an exception may have an empty text
Faults == { <<>>, <<"boom">> }

\* items the extraction returns: contract objects (with .dict()) or other objects
Items ==
    { [kind |-> "contract", text |-> "customer_name=John Doe"],
      [kind |-> "other", text |-> "raw"] }

ItemLists == UNION { [1..n -> Items] : n \in 0..MaxRecords }

\* item.dict() if hasattr(item, 'dict') else str(item)
ToData(item) ==
    IF item.kind = "contract" THEN [type |-> "dict", text |-> item.text]
    ELSE [type |-> "str", text |-> item.text]

\* what the anonymizer returns for the analyzer's findings in text
Anonymize(text) ==
    IF text = "customer_name=John Doe" THEN "customer_name=<PERSON>" ELSE text

\* a mask_pii that does not look at settings.ENABLE_PII_MASKING
MutantMaskPiiIgnoresSetting(text, enabled, analyzer, raises) ==
    IF ~analyzer THEN text
    ELSE IF raises THEN text
    ELSE Anonymize(text)

\* DocumentIntelligenceAgent.mask_pii; enabled: settings.ENABLE_PII_MASKING,
\* analyzer: self.analyzer was initialised, raises: analyze/anonymize raised
mask_pii(text, enabled, analyzer, raises) ==
    IF ~enabled \/ ~analyzer THEN text
    ELSE IF raises THEN text
    ELSE Anonymize(text)

ConvertItems(items) == [i \in 1..Len(items) |-> ToData(items[i])]

\* placeholder for "no result returned yet"
NoResult == [ status |-> "none", document_path |-> EmptyPath, document_type |-> "",
              extracted_data |-> <<>>, error_message |-> <<>>, messages |-> <<>> ]

\* no batch_process_documents call in progress
NoBatch == [ active |-> FALSE, document_paths |-> <<>>, idx |-> 1,
             use_vision |-> FALSE, enable_pii_masking |-> FALSE,
             results |-> <<>>, returned |-> FALSE ]

\* str(n) for the small counts that occur
NumText(n) == <<"0", "1", "2", "3", "4", "5", "6", "7", "8", "9">>[n + 1]

HumanMessage(content) == [type |-> "human", content |-> content]
AIMessage(content) == [type |-> "ai", content |-> content]

\* a lookup that never finds the key
MutantStateGetDefault(key, value, default) == default

\* state.get(key, default)
StateGet(key, value, default) == IF key \in stateKeys THEN value ELSE default

\* the threshold _process_document compares settings.MAX_CONTEXT_TOKENS with
LowContextThreshold == 8192

ContextSettings == {4096, LowContextThreshold, 32768}

(***************************************************************************)
(* DocumentIntelligenceWorkflow.process_document, up to the invocation of  *)
(* the compiled graph: a fresh DocumentProcessingState, then the START     *)
(* edge to validate_document.                                              *)
(***************************************************************************)
process_document(p, uv, pii, ex, rd) ==
    /\ pc \in {"idle", "returned"}
    /\ (p = EmptyPath) => ~ex
    /\ rd => ex
    /\ document_path' = p
    /\ use_vision' = uv
    /\ enable_pii_masking' = pii
    /\ messages' = << HumanMessage(<<"Process document: ">> \o PathText(p)) >>
    /\ stateKeys' = {"messages", "document_path", "use_vision", "enable_pii_masking"}
    /\ processing_status' = "pending"
    /\ document_type' = ""
    /\ extracted_data' = <<>>
    /\ error_message' = <<>>
    /\ result' = NoResult
    /\ nodeLog' = <<>>
    /\ fsExists' = ex
    /\ fsReadable' = rd
    /\ pc' = "validate_document"
    /\ UNCHANGED <<MAX_CONTEXT_TOKENS, batch, regVars,
                   rdVars, thVars, agVars>>

\* a validation routing that continues whatever the status is
Mutant_should_continue_always(status) == "classify_document"

\* _should_continue_after_validation, mapped to the next node
_should_continue_after_validation(status) ==
    IF status = "validated" THEN "classify_document" ELSE "handle_error"

\* _should_end_workflow, mapped to the next node
_should_end_workflow(status) ==
    IF status = "completed" THEN "END" ELSE "handle_error"

\* a validation that looks at the extension before the file
MutantValidationFormatFirst(p, ex, raises, e) ==
    IF p = EmptyPath THEN <<"No document path provided">>
    ELSE IF ~validate_document(p)
         THEN <<"Unsupported document format: ">> \o SuffixText(p)
    ELSE IF ~ex THEN <<"Document not found: ">> \o PathText(p)
    ELSE IF raises THEN <<"Validation failed: ">> \o e
    ELSE <<>>

\* the text _validate_document stores when a check fails, <<>> when all pass;
\* raises: the agent's validate_document raised e
ValidationError(p, ex, raises, e) ==
    IF p = EmptyPath THEN <<"No document path provided">>
    ELSE IF ~ex THEN <<"Document not found: ">> \o PathText(p)
    ELSE IF raises THEN <<"Validation failed: ">> \o e
    ELSE IF ~validate_document(p)
         THEN <<"Unsupported document format: ">> \o SuffixText(p)
    ELSE <<>>

_validate_document ==
    /\ pc = "validate_document"
    /\ \E raises \in BOOLEAN, e \in Faults :
         LET err == ValidationError(document_path, fsExists, raises, e)
             status == IF err = <<>> THEN "validated" ELSE "error"
         IN /\ processing_status' = status
            /\ error_message' = IF status = "error" THEN err ELSE error_message
            /\ stateKeys' = stateKeys \cup
                    (IF status = "error" THEN {"processing_status", "error_message"}
                     ELSE {"processing_status"})
            /\ messages' = IF status = "validated"
                           THEN Append(messages, AIMessage(
                                   <<"Document validated successfully: ">>
                                       \o PathText(document_path)))
                           ELSE messages
            /\ pc' = _should_continue_after_validation(status)
            /\ nodeLog' = Append(nodeLog,
                   [node |-> "validate_document",
                    raised |-> err = <<"Validation failed: ">> \o e,
                    out |-> IF err = <<"Validation failed: ">> \o e THEN e ELSE <<>>,
                    items |-> <<>>])
    /\ UNCHANGED <<document_path, use_vision, enable_pii_masking, document_type,
                   extracted_data, result, fsExists, fsReadable,
                   MAX_CONTEXT_TOKENS, batch, regVars,
                   rdVars, thVars, agVars>>

\* an edge out of classify_document that ends the graph
MutantClassifyEdgeToEnd(status) == "END"

\* the node an edge out of classify_document leads to
ClassifyEdge(status) == "process_document"

\* a classify_document without its except branch: a file that cannot be
\* opened makes it raise
MutantClassifyPropagates(readable) == ~readable

\* whether the agent's classify_document lets an exception through: its own
\* "except Exception" absorbs the failure to open or read the file
ClassifyDocumentRaises(readable) == FALSE

\* raises: a classifier substituted for the agent's raises e
_classify_document ==
    /\ pc = "classify_document"
    /\ \E raises \in BOOLEAN, e \in Faults :
         IF raises \/ ClassifyDocumentRaises(fsReadable)
         THEN /\ processing_status' = "error"
              /\ error_message' = <<"Classification failed: ">> \o e
              /\ stateKeys' = stateKeys \cup {"processing_status", "error_message"}
              /\ nodeLog' = Append(nodeLog,
                     [node |-> "classify_document", raised |-> TRUE, out |-> e,
                      items |-> <<>>,
                      substituted |-> raises])
              /\ UNCHANGED <<document_type, messages>>
         ELSE LET t == classify_document(document_path, fsReadable)
                  dt == IF t = None THEN "Unknown" ELSE t
              IN /\ document_type' = dt
                 /\ processing_status' = "classified"
                 /\ stateKeys' = stateKeys \cup {"document_type", "processing_status"}
                 /\ messages' = Append(messages,
                                   AIMessage(<<"Document classified as: ", dt>>))
                 /\ nodeLog' = Append(nodeLog,
                        [node |-> "classify_document", raised |-> FALSE,
                         out |-> <<t>>, items |-> <<>>, substituted |-> FALSE])
                 /\ UNCHANGED error_message
    /\ pc' = ClassifyEdge(processing_status')
    /\ UNCHANGED <<document_path, use_vision, enable_pii_masking, extracted_data,
                   result, fsExists, fsReadable, MAX_CONTEXT_TOKENS, batch,
                   regVars,
                   rdVars, thVars, agVars>>

\* an except branch that drops the text of the exception
MutantProcessingFailedNoText(e) == <<"Processing failed: ">>

\* the error message _process_document stores when the extraction raised e
ProcessingFailed(e) == <<"Processing failed: ">> \o e

\* extract_with_pagination: the items of process_document converted to data
extract_with_pagination(items) == ConvertItems(items)

\* a result message that is left out when nothing was extracted
MutantNoTraceWhenEmpty(msgs, strategy_used, n) ==
    IF n = 0 THEN msgs
    ELSE Append(msgs, AIMessage(
            <<"Document processed successfully using ", strategy_used,
              ". Extracted ", NumText(n), " data items.">>))

\* the processing result message _process_document appends: the strategy
\* and len(extracted_data)
ProcessedTrace(msgs, strategy_used, n) ==
    Append(msgs, AIMessage(
        <<"Document processed successfully using ", strategy_used,
          ". Extracted ", NumText(n), " data items.">>))

_process_document ==
    /\ pc = "process_document"
    /\ \E raises \in BOOLEAN, e \in Faults, items \in ItemLists :
         IF raises
         THEN /\ processing_status' = "error"
              /\ error_message' = ProcessingFailed(e)
              /\ stateKeys' = stateKeys \cup {"processing_status", "error_message"}
              /\ nodeLog' = Append(nodeLog,
                     [node |-> "process_document", raised |-> TRUE, out |-> e,
                      items |-> <<>>])
              /\ UNCHANGED <<extracted_data, messages>>
         ELSE LET paginate == MAX_CONTEXT_TOKENS <= LowContextThreshold
                  data == IF paginate THEN extract_with_pagination(items)
                          ELSE ConvertItems(items)
                  strategy_used == IF paginate THEN "pagination (limited context)"
                                   ELSE "standard processing"
              IN /\ extracted_data' = data
                 /\ processing_status' = "completed"
                 /\ stateKeys' = stateKeys \cup {"extracted_data", "processing_status"}
                 /\ messages' = ProcessedTrace(messages, strategy_used, Len(data))
                 /\ nodeLog' = Append(nodeLog,
                        [node |-> "process_document", raised |-> FALSE, out |-> <<>>,
                         items |-> items])
                 /\ UNCHANGED error_message
    /\ pc' = _should_end_workflow(processing_status')
    /\ UNCHANGED <<document_path, use_vision, enable_pii_masking, document_type,
                   result, fsExists, fsReadable, MAX_CONTEXT_TOKENS, batch,
                   regVars,
                   rdVars, thVars, agVars>>

\* a _handle_error that appends two messages
MutantErrorTraceTwice(msgs, err) ==
    Append(Append(msgs, AIMessage(<<"Error: ">> \o err)), AIMessage(<<"Error: ">> \o err))

\* the message _handle_error appends to state["messages"]
ErrorTrace(msgs, err) == Append(msgs, AIMessage(<<"Error: ">> \o err))

_handle_error ==
    /\ pc = "handle_error"
    /\ messages' = ErrorTrace(messages,
            StateGet("error_message", error_message, <<"Unknown error occurred">>))
    /\ pc' = "END"
    /\ nodeLog' = Append(nodeLog,
                         [node |-> "handle_error", raised |-> FALSE, out |-> <<>>,
                          items |-> <<>>])
    /\ UNCHANGED <<document_path, use_vision, enable_pii_masking, processing_status,
                   document_type, extracted_data, error_message, stateKeys, result,
                   fsExists, fsReadable, MAX_CONTEXT_TOKENS, batch, regVars,
                   rdVars, thVars, agVars>>

\* process_document after workflow.invoke returned final_state: the result dict
process_document_return ==
    /\ pc = "END"
    /\ result' = [ status |-> processing_status,
                   document_path |-> document_path,
                   document_type |-> StateGet("document_type", document_type, "Unknown"),
                   extracted_data |-> StateGet("extracted_data", extracted_data, <<>>),
                   error_message |-> StateGet("error_message", error_message, <<>>),
                   messages |-> [i \in 1..Len(messages) |-> messages[i].content] ]
    /\ pc' = "returned"
    /\ UNCHANGED <<document_path, use_vision, enable_pii_masking, processing_status,
                   document_type, extracted_data, error_message, messages, stateKeys,
                   nodeLog, fsExists, fsReadable, MAX_CONTEXT_TOKENS, batch,
                   regVars,
                   rdVars, thVars, agVars>>

\* an except clause that lets the exception of workflow.invoke through
MutantExceptReRaises(p, e) == [pc |-> "raised", result |-> NoResult]

\* the except clause of process_document: workflow.invoke raised e
ExceptReturn(p, e) ==
    [ pc |-> "returned",
      result |-> [ status |-> "error",
                   document_path |-> p,
                   document_type |-> "Unknown",
                   extracted_data |-> <<>>,
                   error_message |-> e,
                   messages |-> << <<"Workflow execution failed: ">> \o e >> ] ]

\* workflow.invoke raises e instead of running the node at pc
process_document_except ==
    /\ pc \in {"validate_document", "classify_document", "process_document",
               "handle_error", "END"}
    /\ \E e \in Faults :
         /\ pc' = ExceptReturn(document_path, e).pc
         /\ result' = ExceptReturn(document_path, e).result
         /\ nodeLog' = Append(nodeLog, [node |-> "invoke", raised |-> TRUE, out |-> e,
                                       items |-> <<>>])
    /\ UNCHANGED <<document_path, use_vision, enable_pii_masking, processing_status,
                   document_type, extracted_data, error_message, messages, stateKeys,
                   fsExists, fsReadable, MAX_CONTEXT_TOKENS, batch, regVars,
                   rdVars, thVars, agVars>>

WorkflowStep ==
    \/ _validate_document
    \/ _classify_document
    \/ _process_document
    \/ _handle_error
    \/ process_document_return

NextWorkflow ==
    \/ \E p \in Paths, uv \in BOOLEAN, pii \in BOOLEAN, ex \in BOOLEAN, rd \in BOOLEAN :
          process_document(p, uv, pii, ex, rd)
    \/ WorkflowStep


InitWorkflow ==
    /\ pc = "idle"
    /\ document_path = EmptyPath
    /\ use_vision = FALSE
    /\ enable_pii_masking = TRUE
    /\ processing_status = "pending"
    /\ document_type = ""
    /\ extracted_data = <<>>
    /\ error_message = <<>>
    /\ messages = <<>>
    /\ stateKeys = {}
    /\ result = NoResult
    /\ nodeLog = <<>>
    /\ fsExists = FALSE
    /\ fsReadable = FALSE
    /\ MAX_CONTEXT_TOKENS \in ContextSettings
    \* the manager is not used by the graph; the reader thread is not running
    /\ providers = <<>>
    /\ active_provider = None
    /\ fallback_provider = None
    /\ MODEL_PROVIDER = "ollama"
    /\ FALLBACK_PROVIDER = "huggingface"
    /\ available = [n \in ProviderSet |-> FALSE]
    /\ agent_config = NoConfig
    /\ lastCall = NoCall
    /\ batch = NoBatch
    /\ rpc = "idle"
    /\ ridx = 1
    /\ rret = None
    /\ rseen = {}
    /\ tpc = "idle"
    /\ tname = None
    /\ tobs = NoObs
    /\ piiCall = NoPii
    /\ fbl = NoLoop
    /\ callers = NoCallers

\* the graph, and workflow.invoke itself raising
NextWorkflowFaults ==
    \/ NextWorkflow
    \/ process_document_except

SpecWorkflowFaults == InitWorkflow /\ [][NextWorkflowFaults]_vars

SpecWorkflow == InitWorkflow /\ [][NextWorkflow]_vars

\* one call runs to completion: the graph steps are not suspended forever
FairSpecWorkflow == SpecWorkflow /\ WF_vars(WorkflowStep)


(***************************************************************************)
(* DocumentIntelligenceWorkflow.batch_process_documents: the for loop over *)
(* document_paths, each iteration one process_document call.               *)
(***************************************************************************)
MaxBatch == 2

\* in a batch the extraction returns at most this many records per document
MaxBatchRecords == 1

\* a supported and an unsupported path
BatchPaths == { p \in Paths : p.suffix \in {".txt", ".xyz"} }

BatchLists == UNION { [1..n -> BatchPaths] : n \in 0..MaxBatch }

batch_process_documents(paths, uv, pii) ==
    /\ ~batch.active
    /\ pc \in {"idle", "returned"}
    /\ batch' = [ active |-> TRUE, document_paths |-> paths, idx |-> 1,
                  use_vision |-> uv, enable_pii_masking |-> pii,
                  results |-> <<>>, returned |-> FALSE ]
    /\ pc' = "idle"
    \* the locals of earlier calls are gone
    /\ document_path' = EmptyPath
    /\ use_vision' = FALSE
    /\ enable_pii_masking' = TRUE
    /\ processing_status' = "pending"
    /\ document_type' = ""
    /\ extracted_data' = <<>>
    /\ error_message' = <<>>
    /\ messages' = <<>>
    /\ stateKeys' = {}
    /\ result' = NoResult
    /\ nodeLog' = <<>>
    /\ UNCHANGED <<fsExists, fsReadable, MAX_CONTEXT_TOKENS, regVars,
                   rdVars, thVars, agVars>>

\* the loop body's call self.process_document(doc_path, use_vision, enable_pii_masking)
batch_call_process_document ==
    /\ batch.active
    /\ pc = "idle"
    /\ batch.idx <= Len(batch.document_paths)
    /\ \E ex \in BOOLEAN, rd \in BOOLEAN :
          process_document(batch.document_paths[batch.idx], batch.use_vision,
                           batch.enable_pii_masking, ex, rd)

\* a loop that stops at the first document that ended in error
MutantBreakOnError(paths, idx, r) ==
    IF r.status = "error" THEN Len(paths) + 1 ELSE idx + 1

\* the position of the for loop after the iteration at idx returned r
NextDocument(paths, idx, r) == idx + 1

\* results[doc_path] = result, and on to the next iteration
batch_store_result ==
    /\ batch.active
    /\ pc = "returned"
    /\ batch' = [batch EXCEPT
                    !.results = (batch.document_paths[batch.idx] :> result) @@ @,
                    !.idx = NextDocument(batch.document_paths, batch.idx, result)]
    /\ pc' = "idle"
    /\ UNCHANGED <<document_path, use_vision, enable_pii_masking, processing_status,
                   document_type, extracted_data, error_message, messages, stateKeys,
                   result, nodeLog, fsExists, fsReadable, MAX_CONTEXT_TOKENS,
                   regVars,
                   rdVars, thVars, agVars>>

\* return results
batch_return ==
    /\ batch.active
    /\ pc = "idle"
    /\ batch.idx > Len(batch.document_paths)
    /\ batch' = [batch EXCEPT !.active = FALSE, !.returned = TRUE]
    /\ UNCHANGED <<pc, document_path, use_vision, enable_pii_masking,
                   processing_status, document_type, extracted_data, error_message,
                   messages, stateKeys, result, nodeLog, fsExists, fsReadable,
                   MAX_CONTEXT_TOKENS, regVars,
                   rdVars, thVars, agVars>>

NextBatch ==
    \/ \E paths \in BatchLists, uv \in BOOLEAN, pii \in BOOLEAN :
          batch_process_documents(paths, uv, pii)
    \/ batch_call_process_document
    \/ WorkflowStep /\ Len(extracted_data') <= MaxBatchRecords
    \/ process_document_except
    \/ batch_store_result
    \/ batch_return

InitBatch ==
    /\ pc = "idle"
    /\ document_path = EmptyPath
    /\ use_vision = FALSE
    /\ enable_pii_masking = TRUE
    /\ processing_status = "pending"
    /\ document_type = ""
    /\ extracted_data = <<>>
    /\ error_message = <<>>
    /\ messages = <<>>
    /\ stateKeys = {}
    /\ result = NoResult
    /\ nodeLog = <<>>
    /\ fsExists = FALSE
    /\ fsReadable = FALSE
    /\ MAX_CONTEXT_TOKENS = LowContextThreshold
    /\ batch = NoBatch
    /\ providers = <<>>
    /\ active_provider = None
    /\ fallback_provider = None
    /\ MODEL_PROVIDER = "ollama"
    /\ FALLBACK_PROVIDER = "huggingface"
    /\ available = [n \in ProviderSet |-> FALSE]
    /\ agent_config = NoConfig
    /\ lastCall = NoCall
    /\ rpc = "idle"
    /\ ridx = 1
    /\ rret = None
    /\ rseen = {}
    /\ tpc = "idle"
    /\ tname = None
    /\ tobs = NoObs
    /\ piiCall = NoPii
    /\ fbl = NoLoop
    /\ callers = NoCallers

SpecBatch == InitBatch /\ [][NextBatch]_vars

(***************************************************************************)
(* UnifiedModelManager.                                                    *)
(***************************************************************************)
\* a constructor that registers every provider it could construct
MutantRegisterUnchecked(av) == ProviderNames

\* self.providers after _initialize_providers: the providers whose
\* is_available() held at construction, in construction order
_initialize_providers(av) == SelectSeq(ProviderNames, LAMBDA n : av[n])

InProviders(name, provs) == \E i \in 1..Len(provs) : provs[i] = name

\* a _set_active_provider that takes the configured fallback unchecked
MutantSetFallbackUnchecked(provs, primary, fallback) ==
    LET a1 == IF InProviders(primary, provs) THEN primary ELSE None
    IN [ active |-> IF a1 = None /\ Len(provs) > 0 THEN provs[1] ELSE a1,
         fallback |-> IF fallback # primary THEN fallback ELSE None ]

\* a _set_active_provider without the "use any available" step
MutantSetActivePrimaryOnly(provs, primary, fallback) ==
    [ active |-> IF InProviders(primary, provs) THEN primary ELSE None,
      fallback |-> IF InProviders(fallback, provs) /\ fallback # primary
                   THEN fallback ELSE None ]

\* _set_active_provider: the active and fallback references it leaves
_set_active_provider(provs, primary, fallback) ==
    LET a1 == IF InProviders(primary, provs) THEN primary ELSE None
        fb == IF InProviders(fallback, provs) /\ fallback # primary
              THEN fallback ELSE None
        a2 == IF a1 = None /\ Len(provs) > 0 THEN provs[1] ELSE a1
    IN [active |-> a2, fallback |-> fb]

\* a get_active_provider_name that reports the first registered provider
MutantActiveNameFirst(provs, active) == IF Len(provs) > 0 THEN provs[1] ELSE None

\* get_active_provider_name run without interruption: the first name whose
\* provider is the active one, else None
get_active_provider_name(provs, active) ==
    IF \E i \in 1..Len(provs) : provs[i] = active
    THEN provs[CHOOSE i \in 1..Len(provs) :
                 /\ provs[i] = active
                 /\ \A j \in 1..(i - 1) : provs[j] # active]
    ELSE None

\* a generate that tries the fallback a second time before giving up
MutantGenerateRetriesAgain(active, fallback, ok1, ok2) ==
    IF active = None
    THEN [outcome |-> "raised", value |-> NoProvidersError, calls |-> <<>>]
    ELSE IF ok1
    THEN [outcome |-> "returned", value |-> Text(active, 1), calls |-> <<active>>]
    ELSE IF fallback # None
    THEN IF ok2
         THEN [outcome |-> "returned", value |-> Text(fallback, 2),
               calls |-> <<active, fallback>>]
         ELSE [outcome |-> "raised", value |-> Error(fallback, 3),
               calls |-> <<active, fallback, fallback>>]
    ELSE [outcome |-> "raised", value |-> Error(active, 1), calls |-> <<active>>]

\* a generate without the check for a missing active provider
MutantGenerateNoGuard(active, fallback, ok1, ok2) ==
    IF ok1
    THEN [outcome |-> "returned", value |-> Text(active, 1), calls |-> <<active>>]
    ELSE IF fallback # None
    THEN IF ok2
         THEN [outcome |-> "returned", value |-> Text(fallback, 2),
               calls |-> <<active, fallback>>]
         ELSE [outcome |-> "raised", value |-> Error(fallback, 2),
               calls |-> <<active, fallback>>]
    ELSE [outcome |-> "raised", value |-> Error(active, 1), calls |-> <<active>>]

\* a generate that raises the active provider's error when both fail
MutantGenerateRaisesOriginal(active, fallback, ok1, ok2) ==
    IF active = None
    THEN [outcome |-> "raised", value |-> NoProvidersError, calls |-> <<>>]
    ELSE IF ok1
    THEN [outcome |-> "returned", value |-> Text(active, 1), calls |-> <<active>>]
    ELSE IF fallback # None
    THEN IF ok2
         THEN [outcome |-> "returned", value |-> Text(fallback, 2),
               calls |-> <<active, fallback>>]
         ELSE [outcome |-> "raised", value |-> Error(active, 1),
               calls |-> <<active, fallback>>]
    ELSE [outcome |-> "raised", value |-> Error(active, 1), calls |-> <<active>>]

\* UnifiedModelManager.generate: ok1 and ok2 say whether the first and the
\* second provider invocation succeed
generate(active, fallback, ok1, ok2) ==
    IF active = None
    THEN [outcome |-> "raised", value |-> NoProvidersError, calls |-> <<>>]
    ELSE IF ok1
    THEN [outcome |-> "returned", value |-> Text(active, 1), calls |-> <<active>>]
    ELSE IF fallback # None
    THEN IF ok2
         THEN [outcome |-> "returned", value |-> Text(fallback, 2),
               calls |-> <<active, fallback>>]
         ELSE [outcome |-> "raised", value |-> Error(fallback, 2),
               calls |-> <<active, fallback>>]
    ELSE [outcome |-> "raised", value |-> Error(active, 1), calls |-> <<active>>]

\* a failover that makes the fallback the active provider
MutantFailoverPersists(active, fallback, ok1, ok2) ==
    IF active # None /\ ~ok1 /\ fallback # None /\ ok2 THEN fallback ELSE active

\* self.active_provider after generate: generate assigns no attribute
ActiveAfterGenerate(active, fallback, ok1, ok2) == active

\* a switch_provider that drops the active provider when the name is unknown
MutantSwitchClearsOnFailure(provs, active, name) ==
    IF InProviders(name, provs)
    THEN [ok |-> TRUE, active |-> name]
    ELSE [ok |-> FALSE, active |-> None]

\* UnifiedModelManager.switch_provider: its return value and the active
\* reference it leaves
switch_provider(provs, active, name) ==
    IF InProviders(name, provs)
    THEN [ok |-> TRUE, active |-> name]
    ELSE [ok |-> FALSE, active |-> active]

\* names a reader running get_active_provider_name has seen active so far
SeenAfter(active) == IF rpc = "loop" THEN rseen \cup {active} ELSE rseen

\* a call of model_manager.generate; a provider that is not available raises
GenerateCall ==
    /\ \E ok1 \in BOOLEAN, ok2 \in BOOLEAN :
         /\ ok1 => (active_provider # None /\ available[active_provider])
         /\ ok2 => (~ok1 /\ active_provider # None /\ fallback_provider # None
                      /\ available[fallback_provider])
         /\ LET r == generate(active_provider, fallback_provider, ok1, ok2)
            IN lastCall' = [ op |-> "generate", arg |-> None,
                             activeBefore |-> active_provider,
                             fallbackBefore |-> fallback_provider,
                             ok1 |-> ok1, ok2 |-> ok2, calls |-> r.calls,
                             outcome |-> r.outcome, value |-> r.value ]
            /\ active_provider' =
                  ActiveAfterGenerate(active_provider, fallback_provider, ok1, ok2)
    /\ UNCHANGED <<providers, fallback_provider, MODEL_PROVIDER,
                   FALLBACK_PROVIDER, available, agent_config, wfVars,
                   rdVars, thVars, agVars>>

\* a call of model_manager.get_active_provider_name()
GetActiveProviderNameCall ==
    /\ lastCall' = [ op |-> "get_active_provider_name", arg |-> None,
                     activeBefore |-> active_provider,
                     fallbackBefore |-> fallback_provider,
                     ok1 |-> FALSE, ok2 |-> FALSE, calls |-> <<>>,
                     outcome |-> "returned",
                     value |-> [ kind |-> "name",
                                 by |-> get_active_provider_name(providers,
                                                                 active_provider),
                                 call |-> 0 ] ]
    /\ UNCHANGED <<providers, active_provider, fallback_provider, MODEL_PROVIDER,
                   FALLBACK_PROVIDER, available, agent_config, wfVars,
                   rdVars, thVars, agVars>>

\* list(self.providers.keys())
get_available_providers(provs) == provs

\* a call of model_manager.get_available_providers(); calls holds the list
\* returned
GetAvailableProvidersCall ==
    /\ lastCall' = [ op |-> "get_available_providers", arg |-> None,
                     activeBefore |-> active_provider,
                     fallbackBefore |-> fallback_provider,
                     ok1 |-> FALSE, ok2 |-> FALSE,
                     calls |-> get_available_providers(providers),
                     outcome |-> "returned", value |-> NoValue ]
    /\ UNCHANGED <<providers, active_provider, fallback_provider, MODEL_PROVIDER,
                   FALLBACK_PROVIDER, available, agent_config, wfVars,
                   rdVars, thVars, agVars>>

\* get_provider_info(name): the named provider's model info, the
\* not_available dict for a name that is not registered, or with no name the
\* info of every registered provider
get_provider_info(provs, name) ==
    IF name # None
    THEN IF InProviders(name, provs)
         THEN [kind |-> "model_info", of |-> <<name>>]
         ELSE [kind |-> "not_available", of |-> <<name>>]
    ELSE [kind |-> "all", of |-> provs]

\* a call of model_manager.get_provider_info(name); calls holds the
\* providers whose info is returned
GetProviderInfoCall(name) ==
    /\ LET r == get_provider_info(providers, name)
       IN lastCall' = [ op |-> "get_provider_info", arg |-> name,
                        activeBefore |-> active_provider,
                        fallbackBefore |-> fallback_provider,
                        ok1 |-> FALSE, ok2 |-> FALSE,
                        calls |-> IF r.kind = "not_available" THEN <<>> ELSE r.of,
                        outcome |-> r.kind, value |-> NoValue ]
    /\ UNCHANGED <<providers, active_provider, fallback_provider, MODEL_PROVIDER,
                   FALLBACK_PROVIDER, available, agent_config, wfVars,
                   rdVars, thVars, agVars>>

\* a switch that hands the fallback role to the provider it replaces when
\* the new active provider was the fallback
MutantSwitchSwapsFallback(provs, active, fallback, name) ==
    IF InProviders(name, provs) /\ name = fallback THEN active ELSE fallback

\* self.fallback_provider after switch_provider(name): the method has no
\* assignment to it
FallbackAfterSwitch(provs, active, fallback, name) == fallback

\* a call of model_manager.switch_provider(name)
SwitchProviderCall(name) ==
    /\ LET r == switch_provider(providers, active_provider, name)
       IN /\ active_provider' = r.active
          /\ fallback_provider' = FallbackAfterSwitch(providers, active_provider,
                                                      fallback_provider, name)
          /\ rseen' = SeenAfter(r.active)
          /\ lastCall' = [ op |-> "switch_provider", arg |-> name,
                           activeBefore |-> active_provider,
                           fallbackBefore |-> fallback_provider,
                           ok1 |-> FALSE, ok2 |-> FALSE, calls |-> <<>>,
                           outcome |-> IF r.ok THEN "True" ELSE "False",
                           value |-> NoValue ]
    /\ UNCHANGED <<providers, MODEL_PROVIDER, FALLBACK_PROVIDER,
                   available, agent_config, wfVars, rpc, ridx, rret,
                   thVars, agVars>>

\* the Ollama server goes away or comes back; the Hugging Face provider's
\* is_available() depends only on what its constructor loaded
OllamaAvailabilityChanges ==
    /\ available' = [available EXCEPT !["ollama"] = ~@]
    /\ UNCHANGED <<providers, active_provider, fallback_provider, MODEL_PROVIDER,
                   FALLBACK_PROVIDER, agent_config, lastCall, wfVars,
                   rdVars, thVars, agVars>>


(***************************************************************************)
(* DocumentIntelligenceAgent: provider switching.                          *)
(***************************************************************************)
\* how _configure_model_provider and _configure_splitter end: both return, or
\* one of them raises out of its own except handler
ConfigOutcomes == {"ok", "model_raises", "splitter_raises"}

\* switch_model_provider: its return value, the active reference and the
\* agent configuration it leaves
switch_model_provider(provs, active, config, name, cfg) ==
    LET r == switch_provider(provs, active, name)
        now == get_active_provider_name(provs, r.active)
    IN IF ~r.ok
       THEN [ok |-> FALSE, active |-> r.active, config |-> config]
       ELSE IF cfg = "model_raises"
       THEN [ok |-> FALSE, active |-> r.active, config |-> config]
       ELSE IF cfg = "splitter_raises"
       THEN [ok |-> FALSE, active |-> r.active,
             config |-> [config EXCEPT !.llm_for = now]]
       ELSE [ok |-> TRUE, active |-> r.active,
             config |-> [llm_for |-> now, splitter_for |-> now]]

\* a restore that runs only after a successful extraction
MutantRestoreOnSuccessOnly(provs, s1, switching, original, outcome, cfg) ==
    IF switching /\ original # None /\ outcome = "returned"
    THEN switch_model_provider(provs, s1.active, s1.config, original, cfg)
    ELSE s1

\* the finally block of process_document_with_provider
RestoreOriginalProvider(provs, s1, switching, original, outcome, cfg) ==
    IF switching /\ original # None
    THEN switch_model_provider(provs, s1.active, s1.config, original, cfg)
    ELSE s1

\* process_document_with_provider(file, name): how the call ends and what it
\* leaves; cfg1 and cfg2 are the outcomes of the reconfiguration in the switch
\* and in the restore, extractOk whether self.process_document returned
process_document_with_provider(provs, active, config, name, cfg1, cfg2, extractOk) ==
    LET original == get_active_provider_name(provs, active)
        switching == name # None /\ name # original
        s0 == [ok |-> TRUE, active |-> active, config |-> config]
        s1 == IF switching
              THEN switch_model_provider(provs, active, config, name, cfg1)
              ELSE s0
        outcome == IF ~s1.ok THEN "ValueError"
                   ELSE IF extractOk THEN "returned" ELSE "raised"
        s2 == RestoreOriginalProvider(provs, s1, switching, original, outcome, cfg2)
    IN [ outcome |-> outcome, switched |-> switching /\ s1.active # active,
         active |-> s2.active, config |-> s2.config ]

\* one call of the agent's switch_model_provider(name); ok1 records whether
\* model_manager.switch_provider succeeded, ok2 whether reconfiguring raised
SwitchModelProviderCall(name) ==
    \E cfg \in ConfigOutcomes :
       LET r == switch_model_provider(providers, active_provider, agent_config,
                                      name, cfg)
       IN /\ active_provider' = r.active
          /\ agent_config' = r.config
          /\ rseen' = SeenAfter(r.active)
          /\ lastCall' = [ op |-> "switch_model_provider", arg |-> name,
                           activeBefore |-> active_provider,
                           fallbackBefore |-> fallback_provider,
                           ok1 |-> switch_provider(providers, active_provider, name).ok,
                           ok2 |-> cfg # "ok", calls |-> <<>>,
                           outcome |-> IF r.ok THEN "True" ELSE "False",
                           value |-> NoValue ]
          /\ UNCHANGED <<providers, fallback_provider, MODEL_PROVIDER,
                         FALLBACK_PROVIDER, available, wfVars, rpc, ridx, rret,
                         thVars, agVars>>

ProcessDocumentWithProviderCall(name) ==
    \E cfg1 \in ConfigOutcomes, cfg2 \in ConfigOutcomes, extractOk \in BOOLEAN :
       LET r == process_document_with_provider(providers, active_provider,
                    agent_config, name, cfg1, cfg2, extractOk)
       IN /\ active_provider' = r.active
          /\ agent_config' = r.config
          /\ rseen' = SeenAfter(r.active)
          /\ lastCall' = [ op |-> "process_document_with_provider", arg |-> name,
                           activeBefore |-> active_provider,
                           fallbackBefore |-> fallback_provider,
                           ok1 |-> r.switched, ok2 |-> FALSE, calls |-> <<>>,
                           outcome |-> r.outcome, value |-> NoValue ]
          /\ UNCHANGED <<providers, fallback_provider, MODEL_PROVIDER,
                         FALLBACK_PROVIDER, available, wfVars, rpc, ridx, rret,
                   thVars, agVars>>

\* what happens while one provider is benchmarked: how the reconfiguration
\* in switch_model_provider ends and whether the provider invocations of
\* model_manager.generate succeed
BenchChoices ==
    { [cfg |-> c, ok1 |-> o1, ok2 |-> o2] :
         c \in ConfigOutcomes, o1 \in BOOLEAN, o2 \in BOOLEAN }

\* the loop of benchmark_providers from the i-th registered provider on:
\* st holds the active reference, the agent configuration and the results
\* gathered so far
RECURSIVE BenchmarkFrom(_, _, _, _, _)
BenchmarkFrom(provs, fallback, i, st, choices) ==
    IF i > Len(provs) THEN st
    ELSE LET name == provs[i]
             sw == switch_model_provider(provs, st.active, st.config, name,
                                         choices[i].cfg)
             g == generate(sw.active, fallback, choices[i].ok1, choices[i].ok2)
             status == IF ~sw.ok THEN "failed_to_switch"
                       ELSE IF g.outcome = "returned" THEN "success"
                       ELSE "error"
         IN BenchmarkFrom(provs, fallback, i + 1,
               [ active |-> sw.active, config |-> sw.config,
                 results |-> Append(st.results,
                                    [provider |-> name, status |-> status]) ],
               choices)

\* a benchmark that leaves the last provider it visited active
MutantBenchmarkNoRestore(provs, st, original, cfg) == st

\* "Restore original provider": the switch after the loop
RestoreAfterBenchmark(provs, st, original, cfg) ==
    IF original # None
    THEN LET r == switch_model_provider(provs, st.active, st.config, original, cfg)
         IN [st EXCEPT !.active = r.active, !.config = r.config]
    ELSE st

\* benchmark_providers: the results dict and what the call leaves
benchmark_providers(provs, active, fallback, config, choices, cfg) ==
    LET original == get_active_provider_name(provs, active)
        st == BenchmarkFrom(provs, fallback, 1,
                 [active |-> active, config |-> config, results |-> <<>>], choices)
    IN RestoreAfterBenchmark(provs, st, original, cfg)

\* the results dict as text: key, status, key, status, ... in insertion order
ResultsText(results) ==
    [ k \in 1..(2 * Len(results)) |->
        IF k % 2 = 1 THEN results[(k + 1) \div 2].provider
        ELSE results[k \div 2].status ]

\* one call of benchmark_providers; calls holds the results dict as text
BenchmarkProvidersCall ==
    \E choices \in [1..Len(providers) -> BenchChoices], cfg \in ConfigOutcomes :
       /\ \A i \in 1..Len(providers) : choices[i].ok2 => ~choices[i].ok1
       /\ LET r == benchmark_providers(providers, active_provider, fallback_provider,
                                       agent_config, choices, cfg)
          IN /\ active_provider' = r.active
             /\ agent_config' = r.config
             /\ rseen' = SeenAfter(r.active)
             /\ lastCall' = [ op |-> "benchmark_providers", arg |-> None,
                              activeBefore |-> active_provider,
                              fallbackBefore |-> fallback_provider,
                              ok1 |-> FALSE, ok2 |-> FALSE,
                              calls |-> ResultsText(r.results),
                              outcome |-> "returned", value |-> NoValue ]
       /\ UNCHANGED <<providers, fallback_provider, MODEL_PROVIDER,
                      FALLBACK_PROVIDER, available, wfVars, rpc, ridx, rret,
                      thVars, agVars>>

(***************************************************************************)
(* The manager and the agent as the module import leaves them              *)
(* (model_manager = UnifiedModelManager(), then the agent's __init__).     *)
(***************************************************************************)
InitRegistry ==
    /\ MODEL_PROVIDER \in SettingsNames
    /\ FALLBACK_PROVIDER \in SettingsNames
    /\ available \in [ProviderSet -> BOOLEAN]
    /\ providers = _initialize_providers(available)
    /\ active_provider =
          _set_active_provider(providers, MODEL_PROVIDER, FALLBACK_PROVIDER).active
    /\ fallback_provider =
          _set_active_provider(providers, MODEL_PROVIDER, FALLBACK_PROVIDER).fallback
    /\ agent_config = [llm_for |-> active_provider, splitter_for |-> active_provider]
    /\ lastCall = NoCall
    /\ batch = NoBatch
    /\ rpc = "idle"
    /\ ridx = 1
    /\ rret = None
    /\ rseen = {}
    /\ tpc = "idle"
    /\ tname = None
    /\ tobs = NoObs
    /\ piiCall = NoPii
    /\ fbl = NoLoop
    /\ callers = NoCallers
    \* no document is being processed
    /\ pc = "idle"
    /\ document_path = EmptyPath
    /\ use_vision = FALSE
    /\ enable_pii_masking = TRUE
    /\ processing_status = "pending"
    /\ document_type = ""
    /\ extracted_data = <<>>
    /\ error_message = <<>>
    /\ messages = <<>>
    /\ stateKeys = {}
    /\ result = NoResult
    /\ nodeLog = <<>>
    /\ fsExists = FALSE
    /\ fsReadable = FALSE
    /\ MAX_CONTEXT_TOKENS = LowContextThreshold

NextRegistry ==
    \/ GenerateCall
    \/ GetActiveProviderNameCall
    \/ GetAvailableProvidersCall
    \/ \E name \in SettingsNames : SwitchProviderCall(name)
    \/ \E name \in SettingsNames : SwitchModelProviderCall(name)
    \/ BenchmarkProvidersCall
    \/ \E name \in SettingsNames \cup {None} : GetProviderInfoCall(name)
    \/ \E name \in SettingsNames \cup {None} : ProcessDocumentWithProviderCall(name)
    \/ OllamaAvailabilityChanges

SpecRegistry == InitRegistry /\ [][NextRegistry]_vars

(***************************************************************************)
(* process_document_with_provider called once by each of two threads on    *)
(* the shared agent and model_manager, one statement per step; each        *)
(* switch_model_provider call is one step.  Nothing holds a lock.          *)
(***************************************************************************)
OtherCaller(t) == CHOOSE u \in CallerThreads : u # t

\* the statement a call continues with after reading original_provider
AfterOriginal(name, original) ==
    IF name # None /\ name # original THEN "switch" ELSE "process"

\* original_provider = model_manager.get_active_provider_name()
CallerBegin(t, name) ==
    /\ callers[t].pc = "idle"
    /\ LET original == get_active_provider_name(providers, active_provider)
           o == callers[OtherCaller(t)]
       IN callers' = [ callers EXCEPT ![t] =
              [ pc |-> AfterOriginal(name, original),
                provider_name |-> name,
                original_provider |-> original,
                outcome |-> "none",
                before |-> IF o.pc = "idle" THEN active_provider ELSE o.before ] ]
    /\ UNCHANGED <<wfVars, regVars, rdVars, thVars, piiCall, fbl>>

\* if not self.switch_model_provider(provider_name): raise ValueError
CallerSwitch(t) ==
    /\ callers[t].pc = "switch"
    /\ \E cfg \in ConfigOutcomes :
         LET r == switch_model_provider(providers, active_provider, agent_config,
                                        callers[t].provider_name, cfg)
         IN /\ active_provider' = r.active
            /\ agent_config' = r.config
            /\ callers' = [ callers EXCEPT
                  ![t].pc = IF r.ok THEN "process" ELSE "finally",
                  ![t].outcome = IF r.ok THEN "none" ELSE "ValueError" ]
    /\ UNCHANGED <<providers, fallback_provider, MODEL_PROVIDER, FALLBACK_PROVIDER,
                   available, lastCall, wfVars, rdVars, thVars, piiCall, fbl>>

\* result = self.process_document(...), which returns or raises
CallerProcess(t) ==
    /\ callers[t].pc = "process"
    /\ \E extractOk \in BOOLEAN :
         callers' = [ callers EXCEPT
            ![t].pc = "finally",
            ![t].outcome = IF extractOk THEN "returned" ELSE "raised" ]
    /\ UNCHANGED <<wfVars, regVars, rdVars, thVars, piiCall, fbl>>

\* the finally block: self.switch_model_provider(original_provider) if the
\* call switched and there was an original provider
CallerFinally(t) ==
    /\ callers[t].pc = "finally"
    /\ \E cfg \in ConfigOutcomes :
         LET c == callers[t]
             switching == c.provider_name # None
                             /\ c.provider_name # c.original_provider
             s1 == [ok |-> TRUE, active |-> active_provider, config |-> agent_config]
             r == RestoreOriginalProvider(providers, s1, switching,
                                          c.original_provider, c.outcome, cfg)
         IN /\ active_provider' = r.active
            /\ agent_config' = r.config
    /\ callers' = [ callers EXCEPT ![t].pc = "done" ]
    /\ UNCHANGED <<providers, fallback_provider, MODEL_PROVIDER, FALLBACK_PROVIDER,
                   available, lastCall, wfVars, rdVars, thVars, piiCall, fbl>>

NextProviderCallers ==
    \E t \in CallerThreads :
       \/ \E name \in SettingsNames \cup {None} : CallerBegin(t, name)
       \/ CallerSwitch(t)
       \/ CallerProcess(t)
       \/ CallerFinally(t)

SpecProviderCallers == InitRegistry /\ [][NextProviderCallers]_vars

(***************************************************************************)
(* DocumentIntelligenceAgent._configure_splitter as a function of the      *)
(* context budget and the active provider.                                 *)
(***************************************************************************)
\* a _configure_splitter whose comparison with the threshold is strict
MutantSplitterStrictThreshold(maxctx, active, raises) ==
    IF raises THEN [kind |-> "TextSplitter", model |-> "text-splitter"]
    ELSE IF maxctx < LowContextThreshold
    THEN [ kind |-> "TextSplitter",
           model |-> IF active = "ollama" THEN "ollama/OLLAMA_MODEL"
                     ELSE "text-splitter" ]
    ELSE [ kind |-> "ImageSplitter",
           model |-> IF active = "ollama" THEN "ollama/OLLAMA_VISION_MODEL"
                     ELSE "vision-splitter" ]

\* the splitter _configure_splitter loads; raises: a statement of its try
\* block raised and the except branch loaded the default
_configure_splitter(maxctx, active, raises) ==
    IF raises THEN [kind |-> "TextSplitter", model |-> "text-splitter"]
    ELSE IF maxctx <= LowContextThreshold
    THEN [ kind |-> "TextSplitter",
           model |-> IF active = "ollama" THEN "ollama/OLLAMA_MODEL"
                     ELSE "text-splitter" ]
    ELSE [ kind |-> "ImageSplitter",
           model |-> IF active = "ollama" THEN "ollama/OLLAMA_VISION_MODEL"
                     ELSE "vision-splitter" ]

\* one run of _configure_splitter; ok1 records whether the active provider's
\* model is vision-capable, ok2 whether the try block raised
ConfigureSplitterCall ==
    /\ \E vision_capable \in BOOLEAN, raises \in BOOLEAN :
         LET sp == _configure_splitter(MAX_CONTEXT_TOKENS,
                       get_active_provider_name(providers, active_provider), raises)
         IN lastCall' = [ op |-> "_configure_splitter", arg |-> None,
                          activeBefore |-> active_provider,
                          fallbackBefore |-> fallback_provider,
                          ok1 |-> vision_capable, ok2 |-> raises, calls |-> <<>>,
                          outcome |-> "returned",
                          value |-> [kind |-> sp.kind, by |-> sp.model, call |-> 0] ]
    /\ UNCHANGED <<providers, active_provider, fallback_provider, MODEL_PROVIDER,
                   FALLBACK_PROVIDER, available, agent_config, wfVars,
                   rdVars, thVars, agVars>>

\* the manager after import, any context budget, any use_vision request
InitSplitter ==
    /\ MODEL_PROVIDER \in SettingsNames
    /\ FALLBACK_PROVIDER \in SettingsNames
    /\ available \in [ProviderSet -> BOOLEAN]
    /\ providers = _initialize_providers(available)
    /\ active_provider =
          _set_active_provider(providers, MODEL_PROVIDER, FALLBACK_PROVIDER).active
    /\ fallback_provider =
          _set_active_provider(providers, MODEL_PROVIDER, FALLBACK_PROVIDER).fallback
    /\ agent_config = [llm_for |-> active_provider, splitter_for |-> active_provider]
    /\ lastCall = NoCall
    /\ batch = NoBatch
    /\ rpc = "idle"
    /\ ridx = 1
    /\ rret = None
    /\ rseen = {}
    /\ tpc = "idle"
    /\ tname = None
    /\ tobs = NoObs
    /\ piiCall = NoPii
    /\ fbl = NoLoop
    /\ callers = NoCallers
    /\ pc = "idle"
    /\ document_path = EmptyPath
    /\ use_vision \in BOOLEAN
    /\ enable_pii_masking = TRUE
    /\ processing_status = "pending"
    /\ document_type = ""
    /\ extracted_data = <<>>
    /\ error_message = <<>>
    /\ messages = <<>>
    /\ stateKeys = {}
    /\ result = NoResult
    /\ nodeLog = <<>>
    /\ fsExists = FALSE
    /\ fsReadable = FALSE
    /\ MAX_CONTEXT_TOKENS \in ContextSettings

\* the texts mask_pii is called with
Texts == {"", "customer_name=John Doe", "raw"}

\* one call of mask_pii(text): enabled is settings.ENABLE_PII_MASKING at the
\* call, analyzer whether self.analyzer is set (it is None after __init__
\* and set by _initialize_components when the setting was on), raises
\* whether analyze or anonymize raises once they are called
MaskPiiCall ==
    /\ \E text \in Texts, enabled \in BOOLEAN, analyzer \in BOOLEAN, raises \in BOOLEAN :
         piiCall' = [ called |-> TRUE, text |-> text, enabled |-> enabled,
                     analyzer |-> analyzer, raises |-> raises,
                     out |-> mask_pii(text, enabled, analyzer, raises) ]
    /\ UNCHANGED <<wfVars, regVars, rdVars, thVars, fbl, callers>>

NextSplitter ==
    \/ ConfigureSplitterCall
    \/ MaskPiiCall
    \/ \E name \in SettingsNames : SwitchProviderCall(name)

SpecSplitter == InitSplitter /\ [][NextSplitter]_vars

(***************************************************************************)
(* switch_model_provider running in one thread, one statement per step,    *)
(* while other callers use the same agent and the same model_manager.      *)
(* Neither object holds a lock.                                            *)
(***************************************************************************)
\* success = model_manager.switch_provider(provider_name)
SwitchModelProviderBegin(name) ==
    /\ tpc = "idle"
    /\ LET r == switch_provider(providers, active_provider, name)
       IN /\ active_provider' = r.active
          /\ tpc' = IF r.ok THEN "configure_model" ELSE "idle"
    /\ tname' = name
    /\ UNCHANGED <<providers, fallback_provider, MODEL_PROVIDER, FALLBACK_PROVIDER,
                   available, agent_config, lastCall, wfVars, rdVars, tobs, agVars>>

\* self._configure_model_provider(); when it raises, switch_model_provider
\* returns False from its except branch
SwitchConfigureModel ==
    /\ tpc = "configure_model"
    /\ \E raises \in BOOLEAN :
         IF raises
         THEN /\ tpc' = "idle"
              /\ UNCHANGED agent_config
         ELSE /\ tpc' = "configure_splitter"
              /\ agent_config' = [agent_config EXCEPT !.llm_for =
                                     get_active_provider_name(providers, active_provider)]
    /\ UNCHANGED <<providers, active_provider, fallback_provider, MODEL_PROVIDER,
                   FALLBACK_PROVIDER, available, lastCall, wfVars, rdVars, tname, tobs, agVars>>

\* self._configure_splitter(), then return success
SwitchConfigureSplitter ==
    /\ tpc = "configure_splitter"
    /\ \E raises \in BOOLEAN :
         IF raises
         THEN UNCHANGED agent_config
         ELSE agent_config' = [agent_config EXCEPT !.splitter_for =
                                  get_active_provider_name(providers, active_provider)]
    /\ tpc' = "idle"
    /\ UNCHANGED <<providers, active_provider, fallback_provider, MODEL_PROVIDER,
                   FALLBACK_PROVIDER, available, lastCall, wfVars, rdVars, tname, tobs, agVars>>

\* another caller's model_manager.generate or agent.process_document: the
\* active provider and the extractor and splitter configuration it runs with
OtherCallerStep(step) ==
    /\ tobs' = [ seen |-> TRUE, step |-> step, during |-> tpc,
                 active |-> active_provider,
                 llm_for |-> agent_config.llm_for,
                 splitter_for |-> agent_config.splitter_for ]
    /\ UNCHANGED <<regVars, wfVars, rdVars, tpc, tname, agVars>>

NextAgentThreads ==
    \/ \E name \in SettingsNames : SwitchModelProviderBegin(name)
    \/ SwitchConfigureModel
    \/ SwitchConfigureSplitter
    \/ \E step \in {"generate", "process_document"} : OtherCallerStep(step)

SpecAgentThreads == InitRegistry /\ [][NextAgentThreads]_vars

(***************************************************************************)
(* get_active_provider_name running in one thread, one comparison of its   *)
(* loop per step, while another thread calls switch_provider.              *)
(***************************************************************************)
ReaderCall ==
    /\ rpc = "idle"
    /\ rpc' = "loop"
    /\ ridx' = 1
    /\ rret' = None
    /\ rseen' = {active_provider}
    /\ UNCHANGED <<wfVars, regVars, thVars, agVars>>

\* one evaluation of "provider == self.active_provider" for the next entry,
\* or the fall through to "return None"
ReaderStep ==
    /\ rpc = "loop"
    /\ IF ridx > Len(providers)
       THEN /\ rret' = None
            /\ rpc' = "done"
            /\ UNCHANGED ridx
       ELSE IF providers[ridx] = active_provider
       THEN /\ rret' = providers[ridx]
            /\ rpc' = "done"
            /\ UNCHANGED ridx
       ELSE /\ ridx' = ridx + 1
            /\ UNCHANGED <<rret, rpc>>
    /\ UNCHANGED <<rseen, wfVars, regVars, thVars, agVars>>

\* the caller takes the value; another call can follow
ReaderDone ==
    /\ rpc = "done"
    /\ rpc' = "idle"
    /\ UNCHANGED <<ridx, rret, rseen, wfVars, regVars, thVars, agVars>>

NextConcurrent ==
    \/ ReaderCall
    \/ ReaderStep
    \/ ReaderDone
    \/ \E name \in SettingsNames : SwitchProviderCall(name)

SpecConcurrent == InitRegistry /\ [][NextConcurrent]_vars

(***************************************************************************)
(* ContentCreationWorkflow.run_with_feedback_loop, one pass of its while   *)
(* loop per step.  self.run catches what workflow.invoke raises and        *)
(* returns a dict with success False.                                      *)
(***************************************************************************)
MaxIterations == 3

\* the review feedback texts a run can carry, as words
Feedbacks == { <<>>, <<"Needs", "revision">>, <<"APPROVED">>,
               <<"Excellent", "work">> }

\* str.lower() on the words that occur
LowerWord(w) ==
    CASE w = "APPROVED" -> "approved"
      [] w = "Excellent" -> "excellent"
      [] w = "Needs" -> "needs"
      [] OTHER -> w

\* sub in text.lower()
InLower(sub, text) == \E i \in 1..Len(text) : LowerWord(text[i]) = sub

\* what self.run returns: the except dict, or the dict of a finished graph
RunResults ==
    { [success |-> FALSE, final_content |-> "", review_feedback |-> <<>>] } \cup
    { [success |-> TRUE, final_content |-> c, review_feedback |-> f] :
         c \in {"", "draft"}, f \in Feedbacks }

\* a loop test that admits one pass more
MutantLoopOffByOne(iteration, max_iterations) == iteration <= max_iterations

\* while iteration < max_iterations
LoopContinues(iteration, max_iterations) == iteration < max_iterations

\* "approved" in review_feedback.lower() or "excellent" in review_feedback.lower()
ReviewIndicatesCompletion(review_feedback) ==
    InLower("approved", review_feedback) \/ InLower("excellent", review_feedback)

run_with_feedback_loop(max_iterations) ==
    /\ fbl.pc \in {"idle", "returned"}
    /\ fbl' = [ pc |-> "while", max_iterations |-> max_iterations, iteration |-> 0,
               current_content |-> "", runs |-> <<>>, ret |-> NoReturn ]
    /\ UNCHANGED <<wfVars, regVars, rdVars, thVars, piiCall, callers>>

\* one pass of the loop body: iteration += 1, the context, self.run, the
\* break on failure, current_content, the break on approval
FeedbackLoopPass ==
    /\ fbl.pc = "while"
    /\ LoopContinues(fbl.iteration, fbl.max_iterations)
    /\ \E r \in RunResults :
         LET iteration == fbl.iteration + 1
             call == [ iteration |-> iteration,
                       previous_content |-> fbl.current_content,
                       result |-> r ]
         IN fbl' = [ fbl EXCEPT
                      !.iteration = iteration,
                      !.runs = Append(@, call),
                      !.current_content = IF r.success THEN r.final_content ELSE @,
                      !.pc = IF ~r.success THEN "return"
                             ELSE IF ReviewIndicatesCompletion(r.review_feedback)
                                  THEN "return"
                             ELSE "while" ]
    /\ UNCHANGED <<wfVars, regVars, rdVars, thVars, piiCall, callers>>

\* the return statement, after a break or when the loop test fails
FeedbackLoopReturn ==
    /\ \/ fbl.pc = "return"
       \/ fbl.pc = "while" /\ ~LoopContinues(fbl.iteration, fbl.max_iterations)
    /\ fbl' = [ fbl EXCEPT !.pc = "returned",
                         !.ret = [ success |-> TRUE, iterations |-> fbl.iteration,
                                   final_content |-> fbl.current_content ] ]
    /\ UNCHANGED <<wfVars, regVars, rdVars, thVars, piiCall, callers>>

NextFeedback ==
    \/ \E max_iterations \in 0..MaxIterations : run_with_feedback_loop(max_iterations)
    \/ FeedbackLoopPass
    \/ FeedbackLoopReturn

\* no document workflow and no manager involved
InitFeedback ==
    /\ fbl = NoLoop
    /\ callers = NoCallers
    /\ piiCall = NoPii
    /\ pc = "idle"
    /\ document_path = EmptyPath
    /\ use_vision = FALSE
    /\ enable_pii_masking = TRUE
    /\ processing_status = "pending"
    /\ document_type = ""
    /\ extracted_data = <<>>
    /\ error_message = <<>>
    /\ messages = <<>>
    /\ stateKeys = {}
    /\ result = NoResult
    /\ nodeLog = <<>>
    /\ fsExists = FALSE
    /\ fsReadable = FALSE
    /\ MAX_CONTEXT_TOKENS = LowContextThreshold
    /\ providers = <<>>
    /\ active_provider = None
    /\ fallback_provider = None
    /\ MODEL_PROVIDER = "ollama"
    /\ FALLBACK_PROVIDER = "huggingface"
    /\ available = [n \in ProviderSet |-> FALSE]
    /\ agent_config = NoConfig
    /\ lastCall = NoCall
    /\ batch = NoBatch
    /\ rpc = "idle"
    /\ ridx = 1
    /\ rret = None
    /\ rseen = {}
    /\ tpc = "idle"
    /\ tname = None
    /\ tobs = NoObs

SpecFeedback == InitFeedback /\ [][NextFeedback]_vars

\* the calling thread runs on: a pass or the return that is possible is taken
FairSpecFeedback ==
    SpecFeedback /\ WF_vars(FeedbackLoopPass) /\ WF_vars(FeedbackLoopReturn)


(***************************************************************************)
(* Properties of the workflow graph.                                       *)
(***************************************************************************)
\* a run is in progress or has just returned
InRun == pc \in {"validate_document", "classify_document", "process_document",
                 "handle_error", "END"}

NodesRun == { nodeLog[i].node : i \in 1..Len(nodeLog) }

InvalidDocument ==
    \/ document_path = EmptyPath
    \/ ~fsExists
    \/ ~validate_document(document_path)

\* the agent's classify_document raised in this run
ClassifierRaised ==
    \E i \in 1..Len(nodeLog) :
        nodeLog[i].node = "classify_document" /\ nodeLog[i].raised

IsPrefix(pre, seq) ==
    /\ Len(pre) <= Len(seq)
    /\ \A i \in 1..Len(pre) : seq[i] = pre[i]

\* the forward moves of the status, and staying put
StatusMove(from, to) ==
    \/ to = from
    \/ from = "pending" /\ to \in {"validated", "error"}
    \/ from = "validated" /\ to \in {"classified", "error"}
    \/ from = "classified" /\ to \in {"completed", "error"}

\* C1: within one run the status only moves pending -> validated -> classified ->
\* completed or sidesteps to error from the first three; error and completed
\* never change again.
C1_StatusOnlyMovesForward ==
    [][InRun => StatusMove(processing_status, processing_status')]_vars

\* C2: if the classifier raised, the extraction step is never executed and the
\* run ends in error with the classification failure as its error message.
C2_ClassifierFaultEndsRun ==
    ClassifierRaised =>
        /\ "process_document" \notin NodesRun
        /\ pc = "returned" =>
              /\ result.status = "error"
              /\ IsPrefix(<<"Classification failed: ">>, result.error_message)

\* C7: for a document that fails validation (empty path, missing file or
\* unsupported extension) neither the classifier node nor the extraction node
\* runs.
C7_InvalidNeverClassifiedOrExtracted ==
    (Len(nodeLog) > 0 /\ InvalidDocument) =>
        NodesRun \cap {"classify_document", "process_document"} = {}

C7_Witness ==
    /\ pc = "returned"
    /\ document_path # EmptyPath
    /\ fsExists
    /\ ~validate_document(document_path)
    /\ NodesRun = {"validate_document", "handle_error"}

\* C8 as stated: for a document that fails validation the messages of the
\* returned result have exactly one entry.
C8_Original ==
    (pc = "returned" /\ InvalidDocument) => Len(result.messages) = 1

\* C8 amended: for a document that fails validation the messages of the
\* returned result have exactly two entries, the request message that
\* process_document put there and one error message carrying the error text.
C8_InvalidHasRequestAndOneError ==
    (pc = "returned" /\ InvalidDocument) =>
        /\ Len(result.messages) = 2
        /\ result.messages[1] = <<"Process document: ">> \o PathText(document_path)
        /\ result.messages[2] = <<"Error: ">> \o result.error_message

C8_Witness ==
    /\ pc = "returned"
    /\ document_path # EmptyPath
    /\ ~fsExists
    /\ result.status = "error"
    /\ Len(result.messages) = 2

\* the transition a trace message reports: the node whose text it carries
TraceOf(content) ==
    LET body == IF Len(content) > 0 /\ content[1] = "Error: "
                THEN Tail(content) ELSE content
        head == IF Len(body) > 0 THEN body[1] ELSE ""
    IN IF head \in {"Document validated successfully: ", "No document path provided",
                    "Document not found: ", "Validation failed: ",
                    "Unsupported document format: "}
       THEN "validate_document"
       ELSE IF head \in {"Document classified as: ", "Classification failed: "}
       THEN "classify_document"
       ELSE IF head \in {"Document processed successfully using ",
                         "Processing failed: "}
       THEN "process_document"
       ELSE "none"

\* the transitions attempted in this run, in order
TransitionsRun == SelectSeq([i \in 1..Len(nodeLog) |-> nodeLog[i].node],
                            LAMBDA n : n # "handle_error")

\* C9: every transition attempted (validate, classify, extract) has exactly one
\* trace message, and the messages are in the order of the transitions.
C9_OneTracePerTransition ==
    pc \in {"END", "returned"} =>
        [i \in 1..(Len(messages) - 1) |-> TraceOf(messages[i + 1].content)]
            = TransitionsRun

\* C10: a call on a valid, existing, supported file returns, and the status it
\* returns is completed or error.
C10_ValidCallReturnsTerminal ==
    /\ (pc = "validate_document" /\ ~InvalidDocument) ~> (pc = "returned")
    /\ []((pc = "returned" /\ ~InvalidDocument)
              => result.status \in {"completed", "error"})

C10_Witness ==
    /\ pc = "returned"
    /\ ~InvalidDocument
    /\ result.status = "completed"
    /\ Len(result.extracted_data) > 0


(***************************************************************************)
(* Properties of the model manager and of the agent's provider switching.  *)
(***************************************************************************)
\* C3: with an active provider set, generate returns the active provider's
\* text if it succeeds; if it raises and a fallback is configured, the
\* fallback's text if that succeeds and otherwise the fallback's error; and
\* the active provider's own error if no fallback is configured.
C3_GenerateOutcomes ==
    (lastCall.op = "generate" /\ lastCall.activeBefore # None) =>
        LET a == lastCall.activeBefore
            f == lastCall.fallbackBefore
        IN /\ lastCall.ok1 =>
                 /\ lastCall.outcome = "returned"
                 /\ lastCall.value = Text(a, 1)
           /\ (~lastCall.ok1 /\ f # None /\ lastCall.ok2) =>
                 /\ lastCall.outcome = "returned"
                 /\ lastCall.value = Text(f, 2)
           /\ (~lastCall.ok1 /\ f # None /\ ~lastCall.ok2) =>
                 /\ lastCall.outcome = "raised"
                 /\ lastCall.value = Error(f, 2)
           /\ (~lastCall.ok1 /\ f = None) =>
                 /\ lastCall.outcome = "raised"
                 /\ lastCall.value = Error(a, 1)

C3_Witness ==
    /\ lastCall.op = "generate"
    /\ lastCall.activeBefore = "ollama"
    /\ lastCall.fallbackBefore = "huggingface"
    /\ ~lastCall.ok1
    /\ ~lastCall.ok2
    /\ lastCall.outcome = "raised"
    /\ lastCall.value = Error("huggingface", 2)

\* C4: a generate call whose active provider fails retries against the
\* fallback only if a fallback is configured and is a different provider from
\* the active one; no provider is invoked twice within one generate call.
C4_RetryOnlyOnDistinctFallback ==
    (lastCall.op = "generate" /\ Len(lastCall.calls) = 2) =>
        /\ lastCall.fallbackBefore # None
        /\ lastCall.fallbackBefore # lastCall.activeBefore
        /\ lastCall.calls[1] # lastCall.calls[2]

\* C5: after process_document_with_provider, however it ended, the active
\* provider is the one that was active immediately before the call.
C5_TransientSwitchRestoresActive ==
    lastCall.op = "process_document_with_provider" =>
        active_provider = lastCall.activeBefore

C5_Witness ==
    /\ lastCall.op = "process_document_with_provider"
    /\ lastCall.outcome = "raised"
    /\ lastCall.ok1
    /\ lastCall.arg # lastCall.activeBefore
    /\ active_provider = lastCall.activeBefore

\* C6: a get_active_provider_name call that runs while switch_provider calls
\* run returns only a value that was the active provider's name at some
\* moment during the call.
C6_ReaderSeesOnlyActiveNames ==
    rpc = "done" => rret \in rseen

(***************************************************************************)
(* Results of process_document                                             *)
(***************************************************************************)

\* workflow.invoke itself raised in this run
GraphFaulted == \E i \in 1..Len(nodeLog) : nodeLog[i].node = "invoke"

\* an except branch of a node, or the one around workflow.invoke, was taken
FaultRaised == \E i \in 1..Len(nodeLog) : nodeLog[i].raised

ResultKeys == {"status", "document_path", "document_type", "extracted_data",
               "error_message", "messages"}

\* C11: whatever fault validation, the classifier, the extraction or the graph
\* execution raises, process_document does not raise: the call ends by
\* returning a dict with status, document type, extracted data, error message
\* and trace messages.
C11_NoFaultEscapes ==
    /\ pc # "raised"
    /\ pc = "returned" =>
          /\ DOMAIN result = ResultKeys
          /\ result.status \in {"completed", "error"}
          /\ result.document_path = document_path
          /\ result.document_type # ""
          /\ FaultRaised => Len(result.messages) >= 1

C11_Witness ==
    /\ pc = "returned"
    /\ GraphFaulted
    /\ \E i \in 1..Len(nodeLog) : nodeLog[i].node = "process_document" /\ nodeLog[i].raised
    /\ result.status = "error"

\* C12: every returned result with status error has a non-empty error message.
C12_ErrorHasMessage ==
    (pc = "returned" /\ result.status = "error") => result.error_message # <<>>

\* C13: every returned result with status completed has an empty error
\* message.
C13_CompletedHasNoMessage ==
    (pc = "returned" /\ result.status = "completed") => result.error_message = <<>>

\* the nodeLog entry of a node that has run exactly as given
Ran(node, raised) ==
    \E i \in 1..Len(nodeLog) : nodeLog[i].node = node /\ nodeLog[i].raised = raised

\* what the agent call in the node returned, or the text of what it raised
OutOf(node) ==
    nodeLog[CHOOSE i \in 1..Len(nodeLog) : nodeLog[i].node = node].out

\* the items the extraction in the node returned
ItemsOf(node) ==
    nodeLog[CHOOSE i \in 1..Len(nodeLog) : nodeLog[i].node = node].items

\* C14: when enable_pii_masking is true and the run completes, the text of
\* every record of the returned extracted data is what mask_pii makes of
\* the text the extraction produced.
C14_CompletedDataIsMasked ==
    (pc = "returned" /\ enable_pii_masking /\ result.status = "completed"
        /\ Ran("process_document", FALSE)) =>
       \A i \in 1..Len(result.extracted_data) :
          result.extracted_data[i].text =
             mask_pii(ItemsOf("process_document")[i].text, TRUE, TRUE, FALSE)

EndsWith(text, m) ==
    /\ Len(text) >= Len(m)
    /\ SubSeq(text, Len(text) - Len(m) + 1, Len(text)) = m

\* C15: if the extraction raises a fault with message m while the status is
\* classified, the returned result has status error, an error message that
\* contains m, and no extracted data.
C15_ExtractionFault ==
    (pc = "returned" /\ Ran("classify_document", FALSE)
        /\ Ran("process_document", TRUE)) =>
       /\ result.status = "error"
       /\ EndsWith(result.error_message, OutOf("process_document"))
       /\ Len(result.error_message) > Len(OutOf("process_document"))
       /\ result.extracted_data = <<>>

C15_Witness ==
    /\ pc = "returned"
    /\ Ran("classify_document", FALSE)
    /\ Ran("process_document", TRUE)
    /\ OutOf("process_document") = <<"boom">>

\* the three checks of _validate_document on the path of this run
PathIsValid ==
    /\ document_path # EmptyPath
    /\ fsExists
    /\ Lower(document_path.suffix) \in get_supported_formats

FirstFailingCheck ==
    IF document_path = EmptyPath THEN <<"No document path provided">>
    ELSE IF ~fsExists THEN <<"Document not found: ">> \o PathText(document_path)
    ELSE <<"Unsupported document format: ">> \o SuffixText(document_path)

\* C16: the validation step moves pending to validated exactly when the path
\* is non-empty, the file exists and the lower-cased extension is supported;
\* otherwise the run ends in error with the message of the first failing
\* check (empty path, missing file, unsupported format) and no extracted data.
C16_ValidatedIffChecksPass ==
    Ran("validate_document", FALSE) =>
       /\ Len(nodeLog) = 1 =>
             /\ processing_status = "validated" <=> PathIsValid
             /\ processing_status = "error" <=> ~PathIsValid
       /\ ~PathIsValid =>
             /\ processing_status = "error"
             /\ error_message = FirstFailingCheck
             /\ pc = "returned" =>
                   /\ result.status = "error"
                   /\ result.error_message = FirstFailingCheck
                   /\ result.extracted_data = <<>>

C16_Witness ==
    /\ pc = "returned"
    /\ Ran("validate_document", FALSE)
    /\ document_path.suffix = ".xyz"
    /\ ~fsExists
    /\ result.error_message[1] = "Document not found: "

\* C18: when validation passes, the classifier returns class C and the
\* extraction returns the list L without raising, the returned result has
\* status completed, document type C and the records of L as extracted data.
C18_SuccessResult ==
    (pc = "returned" /\ Ran("validate_document", FALSE)
        /\ Ran("classify_document", FALSE) /\ Ran("process_document", FALSE)
        /\ OutOf("classify_document") # <<None>>) =>
       /\ result.status = "completed"
       /\ <<result.document_type>> = OutOf("classify_document")
       /\ Len(result.extracted_data) = Len(ItemsOf("process_document"))
       /\ \A i \in 1..Len(result.extracted_data) :
             result.extracted_data[i].text = ItemsOf("process_document")[i].text

C18_Witness ==
    /\ pc = "returned"
    /\ Ran("process_document", FALSE)
    /\ OutOf("classify_document") = <<"Invoice">>
    /\ Len(ItemsOf("process_document")) = 2
    /\ result.status = "completed"

(***************************************************************************)
(* batch_process_documents                                                 *)
(***************************************************************************)

BatchPathSet == { batch.document_paths[i] : i \in 1..Len(batch.document_paths) }

\* the state a process_document call starts the graph with
FreshRun(p) ==
    /\ document_path = p
    /\ processing_status = "pending"
    /\ document_type = ""
    /\ extracted_data = <<>>
    /\ error_message = <<>>
    /\ messages = << HumanMessage(<<"Process document: ">> \o PathText(p)) >>
    /\ nodeLog = <<>>

\* C17: batch_process_documents never raises because of one document: it
\* returns a mapping with an entry for every input path, each entry the result
\* process_document gave for that path, and a document that ended in error
\* neither stops the loop nor changes how the documents after it start.
C17_BatchCoversEveryPath ==
    /\ pc # "raised"
    /\ (batch.active /\ pc = "idle" /\ batch.idx > 1) =>
          /\ batch.idx <= Len(batch.document_paths) + 1
          /\ batch.document_paths[batch.idx - 1] \in DOMAIN batch.results
          /\ batch.results[batch.document_paths[batch.idx - 1]] = result
    /\ (batch.active /\ pc = "validate_document") =>
          FreshRun(batch.document_paths[batch.idx])
    /\ batch.returned =>
          /\ DOMAIN batch.results = BatchPathSet
          /\ \A p \in BatchPathSet :
                /\ batch.results[p].document_path = p
                /\ batch.results[p].status \in {"completed", "error"}

C17_Witness ==
    /\ batch.returned
    /\ Len(batch.document_paths) = 2
    /\ batch.document_paths[1] # batch.document_paths[2]
    /\ batch.results[batch.document_paths[1]].status = "error"
    /\ batch.results[batch.document_paths[2]].status = "completed"

(***************************************************************************)
(* UnifiedModelManager after construction                                  *)
(***************************************************************************)

\* no manager or agent call has been made since __init__
JustConstructed == lastCall = NoCall

\* C19 as stated: at initialisation the active provider is the configured
\* primary if it is available, else the configured fallback if it is
\* available, else the first available provider in discovery order, else
\* unset.
C19_Original ==
    JustConstructed =>
       active_provider =
          IF InProviders(MODEL_PROVIDER, providers) THEN MODEL_PROVIDER
          ELSE IF InProviders(FALLBACK_PROVIDER, providers) THEN FALLBACK_PROVIDER
          ELSE IF Len(providers) > 0 THEN providers[1]
          ELSE None

\* C19: at initialisation the active provider is the configured primary if
\* it is available, else the first available provider in discovery order
\* (whether or not the configured fallback is available), else unset.
C19_PrimaryElseFirstAvailable ==
    JustConstructed =>
       /\ InProviders(MODEL_PROVIDER, providers) => active_provider = MODEL_PROVIDER
       /\ (~InProviders(MODEL_PROVIDER, providers) /\ Len(providers) > 0) =>
             active_provider = providers[1]
       /\ Len(providers) = 0 => active_provider = None

C19_Witness ==
    /\ JustConstructed
    /\ ~InProviders(MODEL_PROVIDER, providers)
    /\ InProviders(FALLBACK_PROVIDER, providers)
    /\ active_provider = providers[1]
    /\ active_provider # FALLBACK_PROVIDER

\* C20: a manager constructed with no provider available has no active
\* provider, and its generate then fails with the no-provider error without
\* invoking any provider's generate.
C20_NoProviderNoGenerate ==
    Len(providers) = 0 =>
       /\ active_provider = None
       /\ lastCall.op = "generate" =>
             /\ lastCall.outcome = "raised"
             /\ lastCall.value = NoProvidersError
             /\ lastCall.calls = <<>>

C20_Witness ==
    /\ Len(providers) = 0
    /\ lastCall.op = "generate"
    /\ lastCall.outcome = "raised"

(***************************************************************************)
(* UnifiedModelManager: generate, switch_provider and the queries          *)
(***************************************************************************)

ActiveName == get_active_provider_name(providers, active_provider)

\* C21: a generate call, whether it succeeds, fails over or raises, leaves
\* the active reference, the fallback reference and the provider mapping as
\* they were, so get_active_provider_name names the same provider as before;
\* when the active provider's generate fails and the fallback's succeeds the
\* call returns the fallback's output.
C21_FailoverIsPerCall ==
    lastCall.op = "generate" =>
       /\ active_provider = lastCall.activeBefore
       /\ fallback_provider = lastCall.fallbackBefore
       /\ ActiveName = get_active_provider_name(providers, lastCall.activeBefore)
       /\ (lastCall.activeBefore # None /\ ~lastCall.ok1 /\ lastCall.ok2) =>
             /\ lastCall.outcome = "returned"
             /\ lastCall.value = Text(lastCall.fallbackBefore, 2)

C21_Witness ==
    /\ lastCall.op = "generate"
    /\ lastCall.activeBefore # None
    /\ ~available[lastCall.activeBefore]
    /\ lastCall.fallbackBefore # None
    /\ lastCall.fallbackBefore # lastCall.activeBefore
    /\ lastCall.value = Text(lastCall.fallbackBefore, 2)
    /\ ActiveName = lastCall.activeBefore

\* C22: one generate call invokes provider generate at most twice, first
\* the active provider and then at most once the fallback, and then returns
\* or raises.
C22_AtMostOneRetry ==
    lastCall.op = "generate" =>
       /\ Len(lastCall.calls) <= 2
       /\ Len(lastCall.calls) >= 1 => lastCall.calls[1] = lastCall.activeBefore
       /\ Len(lastCall.calls) = 2 =>
             /\ ~lastCall.ok1
             /\ lastCall.calls[2] = lastCall.fallbackBefore
       /\ lastCall.outcome \in {"returned", "raised"}

C22_Witness ==
    /\ lastCall.op = "generate"
    /\ Len(lastCall.calls) = 2
    /\ lastCall.outcome = "raised"

\* C23: switch_provider with a name that is not registered returns False
\* and leaves the active and the fallback reference as they were.
C23_UnknownSwitchChangesNothing ==
    (lastCall.op = "switch_provider" /\ ~InProviders(lastCall.arg, providers)) =>
       /\ lastCall.outcome = "False"
       /\ active_provider = lastCall.activeBefore
       /\ fallback_provider = lastCall.fallbackBefore

C23_Witness ==
    /\ lastCall.op = "switch_provider"
    /\ ~InProviders(lastCall.arg, providers)
    /\ lastCall.outcome = "False"
    /\ active_provider # None

\* C24: get_active_provider_name returns the name of the provider that is
\* active, which after a successful switch_provider(n) is n, and returns
\* None exactly when no provider is active.
C24_ActiveNameIsLastActivated ==
    /\ lastCall.op = "get_active_provider_name" =>
          /\ lastCall.value.by = active_provider
          /\ lastCall.value.by = None <=> active_provider = None
    /\ (lastCall.op = "switch_provider" /\ lastCall.outcome = "True") =>
          ActiveName = lastCall.arg
    /\ (lastCall.op = "switch_provider" /\ lastCall.outcome = "False") =>
          ActiveName = lastCall.activeBefore
    /\ ActiveName = None <=> active_provider = None

C24_Witness ==
    /\ lastCall.op = "switch_provider"
    /\ lastCall.outcome = "True"
    /\ lastCall.arg # lastCall.activeBefore
    /\ lastCall.arg = providers[2]
    /\ ActiveName = lastCall.arg

\* C25: get_available_providers returns exactly the names of the providers
\* whose is_available() is true at the moment of the call.
C25_ListIsCurrentAvailability ==
    [][(lastCall' # lastCall /\ lastCall'.op = "get_available_providers") =>
          { lastCall'.calls[i] : i \in 1..Len(lastCall'.calls) }
             = { n \in ProviderSet : available[n] }]_vars

\* C26: the active and the fallback reference are each unset or a provider
\* registered in the mapping.
C26_ReferencesAreRegistered ==
    /\ active_provider = None \/ InProviders(active_provider, providers)
    /\ fallback_provider = None \/ InProviders(fallback_provider, providers)

C26_Witness ==
    /\ lastCall.op = "switch_provider"
    /\ lastCall.outcome = "True"
    /\ fallback_provider # None
    /\ active_provider = fallback_provider

\* an extraction by the agent in the state it found: process_document, or
\* process_document_with_provider without a provider name
ExtractionRan ==
    /\ lastCall.op = "process_document_with_provider"
    /\ lastCall.arg = None
    /\ lastCall.outcome \in {"returned", "raised"}

\* C29: after any explicit switch, through the manager or through the agent,
\* no extraction runs with a splitter that was configured for a provider
\* other than the active one.
C29_SplitterFollowsActive ==
    ExtractionRan => agent_config.splitter_for = active_provider

(***************************************************************************)
(* Splitter selection                                                      *)
(***************************************************************************)

\* C28 as stated: a budget at or below the threshold gives the text
\* splitter; above it the image splitter is chosen only if the provider is
\* vision-capable and use_vision was requested; otherwise the text splitter.
C28_Original ==
    lastCall.op = "_configure_splitter" =>
       lastCall.value.kind =
          IF MAX_CONTEXT_TOKENS <= LowContextThreshold THEN "TextSplitter"
          ELSE IF lastCall.ok1 /\ use_vision THEN "ImageSplitter"
          ELSE "TextSplitter"

\* C28: a budget at or below the threshold gives the text splitter; a budget
\* above it gives the image splitter whatever the provider's vision
\* capability and the use_vision request are; the text splitter is also what
\* is loaded when configuring the splitter raised.
C28_SplitterByBudgetOnly ==
    lastCall.op = "_configure_splitter" =>
       lastCall.value.kind =
          IF lastCall.ok2 THEN "TextSplitter"
          ELSE IF MAX_CONTEXT_TOKENS <= LowContextThreshold THEN "TextSplitter"
          ELSE "ImageSplitter"

C28_Witness ==
    /\ lastCall.op = "_configure_splitter"
    /\ MAX_CONTEXT_TOKENS > LowContextThreshold
    /\ ~use_vision
    /\ ~lastCall.ok1
    /\ lastCall.value.kind = "ImageSplitter"

(***************************************************************************)
(* Concurrent callers of the agent                                         *)
(***************************************************************************)

\* C27: no generate or extraction step of another caller runs while a
\* switch is in progress whose new active provider is already in place but
\* for which the extractor or the splitter is still configured for the
\* previous provider.
C27_SwitchNeverSeenHalfApplied ==
    (tobs.seen /\ tobs.during # "idle") =>
       /\ tobs.llm_for = tobs.active
       /\ tobs.splitter_for = tobs.active

(***************************************************************************)
(* Classification of a file that cannot be read                            *)
(***************************************************************************)

\* the agent's own classify_document was called in this run
AgentClassifierCalled ==
    \E i \in 1..Len(nodeLog) :
       nodeLog[i].node = "classify_document" /\ ~nodeLog[i].substituted

\* C30: for a document that exists but cannot be read, classify_document
\* does not raise: the node records document type Unknown, moves to
\* classified and the graph continues with the extraction.
C30_UnreadableIsUnknown ==
    (fsExists /\ ~fsReadable /\ AgentClassifierCalled) =>
       /\ Ran("classify_document", FALSE)
       /\ OutOf("classify_document") = <<None>>
       /\ document_type = "Unknown"
       /\ Len(nodeLog) = 2 =>
             /\ processing_status = "classified"
             /\ pc = "process_document"
       /\ Len(nodeLog) > 2 => nodeLog[3].node = "process_document"

C30_Witness ==
    /\ pc = "returned"
    /\ fsExists
    /\ ~fsReadable
    /\ AgentClassifierCalled
    /\ Ran("process_document", FALSE)
    /\ result.document_type = "Unknown"
    /\ result.status = "completed"

(***************************************************************************)
(* Classification of a file name with the indicators of several classes   *)
(***************************************************************************)

\* the values classify_document can name
DocumentClasses == {"Invoice", "Driver License", "Passport", "Business Card", "Unknown"}

\* the classes whose indicators occur in the lowered file name of p
MatchingClasses(p) ==
    { c \in DocumentClasses \ {"Unknown"} :
        \/ c = "Invoice" /\ Indicators(p) \cap {"invoice", "bill"} # {}
        \/ c = "Driver License" /\ Indicators(p) \cap {"license", "dl"} # {}
        \/ c = "Passport" /\ Indicators(p) \cap {"passport"} # {}
        \/ c = "Business Card" /\ Indicators(p) \cap {"business", "card"} # {} }

\* C31: what the agent's classify_document returns for a readable document
\* is one value of the closed set of classes, and it is Unknown when the
\* document carries the indicators of more than one class.
C31_AmbiguousIsUnknown ==
    (AgentClassifierCalled /\ fsReadable /\ Ran("classify_document", FALSE)) =>
       /\ OutOf("classify_document") \in { <<c>> : c \in DocumentClasses }
       /\ Cardinality(MatchingClasses(document_path)) > 1 =>
             OutOf("classify_document") = <<"Unknown">>

(***************************************************************************)
(* Completed results and the number of items extracted                     *)
(***************************************************************************)

\* the strategies _process_document names in its result message
Strategies == {"pagination (limited context)", "standard processing"}

\* the trace entries of the returned result that state a number of items
ItemCountNotes ==
    { i \in 1..Len(result.messages) :
        /\ Len(result.messages[i]) = 5
        /\ result.messages[i][3] = ". Extracted "
        /\ result.messages[i][5] = " data items." }

\* C33: a returned result with status completed has at least one extracted
\* record or its trace states that zero items were extracted; in either
\* case the last entry of its trace states the number of records it holds.
C33_CompletedNotesItemCount ==
    (pc = "returned" /\ result.status = "completed") =>
       /\ Len(result.extracted_data) >= 1 \/ ItemCountNotes # {}
       /\ Len(result.messages) \in ItemCountNotes
       /\ \A i \in ItemCountNotes :
             /\ result.messages[i][4] = NumText(Len(result.extracted_data))
             /\ result.messages[i][2] \in Strategies

C33_Witness ==
    /\ pc = "returned"
    /\ result.status = "completed"
    /\ result.extracted_data = <<>>
    /\ ItemCountNotes # {}
    /\ \A i \in ItemCountNotes : result.messages[i][4] = "0"

(***************************************************************************)
(* mask_pii                                                                *)
(***************************************************************************)

\* C34: mask_pii returns its input unchanged when masking is disabled or
\* the analyzer is not set; when masking is enabled and the analyzer is set
\* it returns the anonymizer's text; when analysis or anonymization raises
\* it returns the input.
C34_MaskPiiOutcomes ==
    piiCall.called =>
       /\ (~piiCall.enabled \/ ~piiCall.analyzer) => piiCall.out = piiCall.text
       /\ (piiCall.enabled /\ piiCall.analyzer /\ ~piiCall.raises) => piiCall.out = Anonymize(piiCall.text)
       /\ (piiCall.enabled /\ piiCall.analyzer /\ piiCall.raises) => piiCall.out = piiCall.text

C34_Witness ==
    /\ piiCall.called
    /\ piiCall.enabled
    /\ piiCall.analyzer
    /\ ~piiCall.raises
    /\ piiCall.out = "customer_name=<PERSON>"
    /\ piiCall.out # piiCall.text

(***************************************************************************)
(* run_with_feedback_loop                                                  *)
(***************************************************************************)

\* the run made in pass i ended the loop: it failed or its review approved
StopsLoop(i) ==
    \/ ~fbl.runs[i].result.success
    \/ ReviewIndicatesCompletion(fbl.runs[i].result.review_feedback)

\* C35: run_with_feedback_loop never runs the content workflow more than
\* max_iterations times and it returns; no run follows a run that failed or
\* whose review feedback contains 'approved' or 'excellent'; fewer than
\* max_iterations runs are made only when the last one stopped the loop;
\* the iterations count returned is the number of runs made.
C35_FeedbackLoopBounded ==
    /\ [](/\ Len(fbl.runs) <= fbl.max_iterations
          /\ \A i \in 1..Len(fbl.runs) : StopsLoop(i) => i = Len(fbl.runs)
          /\ fbl.pc = "returned" =>
                /\ fbl.ret.iterations = Len(fbl.runs)
                /\ fbl.ret.iterations <= fbl.max_iterations
                /\ Len(fbl.runs) < fbl.max_iterations => StopsLoop(Len(fbl.runs)))
    /\ (fbl.pc = "while" ~> fbl.pc = "returned")

C35_Witness ==
    /\ fbl.pc = "returned"
    /\ fbl.max_iterations = 3
    /\ fbl.ret.iterations = 2
    /\ Len(fbl.runs) = 2
    /\ ~StopsLoop(1)
    /\ fbl.runs[2].result.review_feedback = <<"Excellent", "work">>

(***************************************************************************)
(* Two concurrent process_document_with_provider calls                     *)
(***************************************************************************)

\* both calls have finished and they asked for different providers
BothCallersDone ==
    /\ \A t \in CallerThreads : callers[t].pc = "done"
    /\ callers[1].provider_name # None
    /\ callers[2].provider_name # None
    /\ callers[1].provider_name # callers[2].provider_name

\* C36: after two process_document_with_provider calls with different
\* requested providers have both finished, whatever the interleaving of
\* their switch and restore steps, the active provider is the one that was
\* active before either call started.
C36_ConcurrentCallsRestoreActive ==
    BothCallersDone => active_provider = callers[1].before

(***************************************************************************)
(* The agent-level switch                                                  *)
(***************************************************************************)

\* C37: whenever switch_model_provider(name) returns False, because the
\* name is unknown or because reconfiguring the extractor or the splitter
\* raised, the registry's active provider is what it was before the call.
C37_FailedAgentSwitchChangesNothing ==
    (lastCall.op = "switch_model_provider" /\ lastCall.outcome = "False") =>
       active_provider = lastCall.activeBefore

(***************************************************************************)
(* What a successful switch_provider leaves alone                          *)
(***************************************************************************)

\* C38: a switch_provider call that returns True makes the named provider
\* active and leaves the fallback reference and the provider mapping as
\* they were, also when the new active provider is the current fallback.
C38_SwitchChangesOnlyActive ==
    [][ (lastCall' # lastCall /\ lastCall'.op = "switch_provider"
            /\ lastCall'.outcome = "True") =>
           /\ active_provider' = lastCall'.arg
           /\ fallback_provider' = fallback_provider
           /\ providers' = providers ]_vars

C38_Witness ==
    /\ lastCall.op = "switch_provider"
    /\ lastCall.outcome = "True"
    /\ lastCall.fallbackBefore # None
    /\ lastCall.arg = lastCall.fallbackBefore
    /\ lastCall.activeBefore # lastCall.arg
    /\ active_provider = lastCall.arg
    /\ fallback_provider = lastCall.arg

(***************************************************************************)
(* benchmark_providers                                                     *)
(***************************************************************************)

BenchmarkStatuses == {"success", "error", "failed_to_switch"}

\* C39: benchmark_providers returns; its results hold one entry for every
\* registered provider, each with status success, error or
\* failed_to_switch; and the active provider after the call is the one
\* that was active before it, whichever switches or generations failed.
C39_BenchmarkRestoresActive ==
    lastCall.op = "benchmark_providers" =>
       /\ lastCall.outcome = "returned"
       /\ Len(lastCall.calls) = 2 * Len(providers)
       /\ \A i \in 1..Len(providers) :
             /\ 2 * i <= Len(lastCall.calls)
             /\ lastCall.calls[2 * i - 1] = providers[i]
             /\ lastCall.calls[2 * i] \in BenchmarkStatuses
       /\ active_provider = lastCall.activeBefore

C39_Witness ==
    /\ lastCall.op = "benchmark_providers"
    /\ Len(lastCall.calls) = 4
    /\ lastCall.activeBefore = "ollama"
    /\ lastCall.calls[2] = "error"
    /\ lastCall.calls[4] = "failed_to_switch"
    /\ active_provider = "ollama"

(***************************************************************************)
(* The provider mapping after construction                                 *)
(***************************************************************************)

\* the names registered in self.providers
Registered == { providers[i] : i \in 1..Len(providers) }

\* a switch through the manager or through the agent was asked for name
SwitchAskedFor(name) ==
    /\ lastCall.op \in {"switch_provider", "switch_model_provider"}
    /\ lastCall.arg = name

\* C40: after construction the mapping holds exactly the providers that
\* are available at that moment; no step of any operation changes it; and
\* a switch to a provider that was unavailable at construction returns
\* False and leaves the active provider alone in every later state.
C40_MappingFixedAtConstruction ==
    /\ Registered = { n \in ProviderSet : available[n] }
    /\ [][providers' = providers]_vars
    /\ \A n \in SettingsNames :
          ~(n \in ProviderSet /\ available[n]) =>
             [](SwitchAskedFor(n) =>
                   /\ lastCall.outcome = "False"
                   /\ active_provider = lastCall.activeBefore)

C40_Witness ==
    /\ SwitchAskedFor("ollama")
    /\ available["ollama"]
    /\ "ollama" \notin Registered
    /\ lastCall.outcome = "False"
    /\ active_provider = "huggingface"
====
